---------------------------- MODULE Spec2Model ----------------------------
(***************************************************************************)
(* Verification model of the DB Explorer extension core:                   *)
(*   - the SQL statement scanner and resolver (query/sqlText.ts),          *)
(*   - PostgresTableDataProvider.saveChanges and its statement builders,   *)
(*   - PostgresQueryExecutor.runCancelable,                                *)
(*   - OpenTableService and the data editor webview round trip.            *)
(* Text is a sequence of one-character strings; offsets are 0-based as in  *)
(* the TypeScript source, so offset i is element i + 1 of the sequence.    *)
(***************************************************************************)
EXTENDS Integers, Sequences, FiniteSets, TLC

VARIABLES
  docText,      \* TextDocument.getText()
  selStart,     \* editor.selection.start as an offset
  selEnd,       \* editor.selection.end as an offset (= selStart when empty)
  sqlPc,        \* which sqlText entry point has run on the document
  segments,     \* value returned by scanSqlSegments
  visited,      \* loop iterations of scanSqlSegments: [offset, kind] pairs
  statements,   \* value returned by getSqlStatements
  sqlToRun      \* value returned by getSqlToRun

sqlVars == <<docText, selStart, selEnd, sqlPc, segments, visited, statements, sqlToRun>>

VARIABLES
  saveRequest,  \* TableSaveRequest passed to saveChanges
  savePc,       \* position of the saveChanges call
  saveIndex,    \* 1-based position of the for loop in request.changes
  saveCounts,   \* updatedRows, insertedRows, deletedRows accumulated so far
  saveCaught,   \* error the catch block received
  saveOutcome,  \* how the promise settled: counts returned or error thrown
  acquired,     \* clients handed out by driver.connect()
  released,     \* client.release() calls
  issued,       \* queries sent on the client, with the engine's verdict
  dbTable,      \* committed rows of the table, by tuple slot
  txTable,      \* rows as seen inside the client's open transaction
  txState       \* transaction state of the client's backend

saveVars == <<saveRequest, savePc, saveIndex, saveCounts, saveCaught, saveOutcome,
              acquired, released, issued, dbTable, txTable, txState>>

VARIABLES
  rcOptions,    \* QueryRunOptions passed to runCancelable
  rcPc,         \* position of the async function behind `promise`
  rcCanceled,   \* the closure's `canceled` flag
  rcClient,     \* clientPromise: pending, resolved (with processID) or rejected
  rcReleased,   \* client.release() calls
  rcEngine,     \* what the pool or the query handed back: a result or an error
  rcResult,     \* value `promise` resolved to
  rcCancels,    \* position and return value of each cancel() invocation
  rcRequests,   \* pg_cancel_backend requests sent through driver.query
  rcLog         \* order in which cancel() calls and the engine's events happened

rcVars == <<rcOptions, rcPc, rcCanceled, rcClient, rcReleased, rcEngine, rcResult,
            rcCancels, rcRequests, rcLog>>

VARIABLES
  otsPc,                 \* "off", or "open" once open() has shown the panel
  otsOpens,              \* number of open() calls that went past their guards
  currentPage,           \* OpenTableService.currentPage
  currentSortColumn,     \* OpenTableService.currentSortColumn, "" when undefined
  currentSortDirection,  \* OpenTableService.currentSortDirection
  activeState,           \* OpenTableService.activeState
  activeRowTokens,       \* OpenTableService.activeRowTokens
  loadsInFlight,         \* loadPage requests whose promise is pending, oldest first
  savesInFlight,         \* provider.saveChanges calls whose promise is pending
  providerSaves,         \* every change handed to provider.saveChanges so far
  htmlPending,           \* html assigned to webview.html, not yet loaded by the webview
  webviewState,          \* the DataEditorState the webview is displaying
  webviewMessages,       \* messages posted by the webview, not yet received
  messagesSent           \* number of messages the webview has posted

otsVars == <<otsPc, otsOpens, currentPage, currentSortColumn, currentSortDirection, activeState,
             activeRowTokens, loadsInFlight, savesInFlight, providerSaves, htmlPending,
             webviewState, webviewMessages, messagesSent>>

VARIABLES
  lpRequest,    \* TablePageRequest passed to loadPage
  lpStored,     \* number of rows the table holds
  lpPc,         \* position of the loadPage call
  lpIssued,     \* queries sent through driver.query, in order
  lpFetched,    \* value the page query resolved to
  lpTypes,      \* promise of loadColumnTypes, with what its query handed back
  lpEnums,      \* promise of loadColumnEnumValues, with what its query handed back
  lpResult      \* how the promise of loadPage settled

lpVars == <<lpRequest, lpStored, lpPc, lpIssued, lpFetched, lpTypes, lpEnums, lpResult>>

VARIABLES
  bldTable,      \* TableReference given to a statement builder
  bldColumns,    \* column names given to a statement builder
  bldChange,     \* the change given to a statement builder
  bldPage,       \* limit and offset given to buildOpenTableSql
  bldPc,         \* "off", "ready", "built" or "selected"
  bldStatement   \* what the builder returned

bldVars == <<bldTable, bldColumns, bldChange, bldPage, bldPc, bldStatement>>

VARIABLES
  activeProfileId,  \* ConnectionManager.activeProfileId, NoProfile when undefined
  sessions,         \* ConnectionManager.sessions: profile id -> session, 0 when absent
  cmCall,           \* the connect / disconnect call in progress and where it is
  cmCalls,          \* calls made so far
  cmLast,           \* the last call that settled, and how
  cmCreated,        \* sessions createSession has handed out: 1..cmCreated
  cmDisposed,       \* sessions whose dispose() has been called
  cmFired           \* states fired through onDidChangeActive, in order

cmVars == <<activeProfileId, sessions, cmCall, cmCalls, cmLast, cmCreated, cmDisposed, cmFired>>

\* ConnectionManager with connect() calls that overlap: the active profile,
\* the session held per profile (0 for none), each call's profile, position
\* and the profile its disconnect() works on, and the sessions created and
\* those whose dispose() was called
VARIABLES ovActiveProfileId, ovSessions, ovCalls, ovCreated, ovDisposed
ovVars == <<ovActiveProfileId, ovSessions, ovCalls, ovCreated, ovDisposed>>

\* the data editor webview: the state it was loaded with, originalRows,
\* workingRows, the cell controls that carry the class "dirty", the disabled
\* flags of the Save and Revert buttons and the save message posted
VARIABLES edState, originalRows, workingRows, dirtyControls, saveDisabled, revertDisabled,
          edPosted
edVars == <<edState, originalRows, workingRows, dirtyControls, saveDisabled, revertDisabled,
            edPosted>>

vars == <<sqlVars, saveVars, rcVars, otsVars, lpVars, bldVars, cmVars, ovVars, edVars>>

\* what the actions of one component leave alone
otherThanSql == <<saveVars, rcVars, otsVars, lpVars, bldVars, cmVars, ovVars, edVars>>
otherThanSave == <<sqlVars, rcVars, otsVars, lpVars, bldVars, cmVars, ovVars, edVars>>
otherThanRc == <<sqlVars, saveVars, otsVars, lpVars, bldVars, cmVars, ovVars, edVars>>
otherThanOts == <<sqlVars, saveVars, rcVars, lpVars, bldVars, cmVars, ovVars, edVars>>
otherThanLp == <<sqlVars, saveVars, rcVars, otsVars, bldVars, cmVars, ovVars, edVars>>
otherThanBld == <<sqlVars, saveVars, rcVars, otsVars, lpVars, cmVars, ovVars, edVars>>
otherThanCm == <<sqlVars, saveVars, rcVars, otsVars, lpVars, bldVars, ovVars, edVars>>
otherThanOv == <<sqlVars, saveVars, rcVars, otsVars, lpVars, bldVars, cmVars, edVars>>
otherThanEd == <<sqlVars, saveVars, rcVars, otsVars, lpVars, bldVars, cmVars, ovVars>>

(***************************************************************************)
(* Bounds                                                                  *)
(***************************************************************************)
MaxTextLen == 4
MaxChanges == 3
MaxRows == 3
MaxCancels == 2
PageSize == 2       \* DATA_EDITOR_PAGE_SIZE, scaled down
MaxMessages == 3    \* messages the webview posts in one run
MaxPageSize == 3    \* largest pageSize of a loadPage request
MaxPageIndex == 2   \* largest pageIndex of a loadPage request
MaxStored == 4      \* rows of the table a page is read from
MaxIdLen == 2       \* longest identifier enumerated for the builders
MaxCells == 3       \* most cells of one change given to a builder
MaxCalls == 4       \* connect / disconnect calls made on one ConnectionManager
MaxNestTokens == 6  \* most comment tokens of a document of nested comments
MaxConnects == 2    \* connect() calls in progress at once on one ConnectionManager
MaxNewRows == 1     \* new rows in the data editor at once
MaxOpens == 2       \* open() calls made on one OpenTableService

(***************************************************************************)
(* Characters                                                              *)
(***************************************************************************)
Digits == {"0", "1", "2", "3", "4", "5", "6", "7", "8", "9"}

UpperLetters ==
  {"A", "B", "C", "D", "E", "F", "G", "H", "I", "J", "K", "L", "M",
   "N", "O", "P", "Q", "R", "S", "T", "U", "V", "W", "X", "Y", "Z"}

LowerLetters ==
  {"a", "b", "c", "d", "e", "f", "g", "h", "i", "j", "k", "l", "m",
   "n", "o", "p", "q", "r", "s", "t", "u", "v", "w", "x", "y", "z"}

\* isWhitespace(char)
IsWhitespace(char) == char \in {" ", "\t", "\n", "\r", "\f"}

\* isDollarTagChar(char): 0-9, A-Z, a-z or "_"
IsDollarTagChar(char) == char \in (Digits \cup UpperLetters \cup LowerLetters \cup {"_"})

\* U+00A0 NO-BREAK SPACE
NoBreakSpace == " "

\* the white space and line terminators String.prototype.trim removes, of
\* the characters the texts here are made of: those of isWhitespace and the
\* no-break space
IsTrimSpace(char) == char \in {" ", "\t", "\n", "\r", "\f", NoBreakSpace}

\* text[i] for a 0-based offset, "" past the end (the source's `next`)
CharAt(text, i) == IF i >= 0 /\ i < Len(text) THEN text[i + 1] ELSE ""

\* text.slice(from, to) for 0 <= from, to <= text.length
Slice(text, from, to) == IF from >= to THEN <<>> ELSE SubSeq(text, from + 1, to)

\* text.startsWith(prefix, i)
StartsWith(text, prefix, i) ==
  /\ i + Len(prefix) <= Len(text)
  /\ \A k \in 1..Len(prefix) : text[i + k] = prefix[k]

RECURSIVE TrimStartOffset(_, _)
TrimStartOffset(text, i) ==
  IF i < Len(text) /\ IsTrimSpace(text[i + 1]) THEN TrimStartOffset(text, i + 1) ELSE i

RECURSIVE TrimEndOffset(_, _)
TrimEndOffset(text, end) ==
  IF end > 0 /\ IsTrimSpace(text[end]) THEN TrimEndOffset(text, end - 1) ELSE end

\* String.prototype.trimEnd
TrimEnd(text) == Slice(text, 0, TrimEndOffset(text, Len(text)))

\* String.prototype.trim
Trim(text) == Slice(text, TrimStartOffset(text, 0), TrimEndOffset(text, Len(text)))

(***************************************************************************)
(* scanSqlSegments                                                         *)
(***************************************************************************)
NoOffset == 0 - 1   \* firstContentOffset === undefined

StateNormal == [kind |-> "normal", depth |-> 0, delimiter |-> <<>>]
StateSingleQuote == [kind |-> "singleQuote", depth |-> 0, delimiter |-> <<>>]
StateDoubleQuote == [kind |-> "doubleQuote", depth |-> 0, delimiter |-> <<>>]
StateLineComment == [kind |-> "lineComment", depth |-> 0, delimiter |-> <<>>]
StateBlockComment(depth) == [kind |-> "blockComment", depth |-> depth, delimiter |-> <<>>]
StateDollarQuote(delimiter) == [kind |-> "dollarQuote", depth |-> 0, delimiter |-> delimiter]

\* One pass of the for loop body: the index the next pass starts at, the
\* scanner state and firstContentOffset after the pass, and whether the pass
\* pushed a segment ending at i.
Pass(i, state, fco, push) == [i |-> i, state |-> state, fco |-> fco, push |-> push]

\* the while loop of readDollarQuoteDelimiter
RECURSIVE DollarTagEnd(_, _)
DollarTagEnd(text, cursor) ==
  IF cursor < Len(text) /\ text[cursor + 1] # "$"
  THEN IF ~IsDollarTagChar(text[cursor + 1]) THEN NoOffset ELSE DollarTagEnd(text, cursor + 1)
  ELSE cursor

\* readDollarQuoteDelimiter: the delimiter, or <<>> for null
ReadDollarQuoteDelimiter(text, offset) ==
  IF CharAt(text, offset) # "$" THEN <<>>
  ELSE LET cursor == DollarTagEnd(text, offset + 1)
       IN  IF cursor = NoOffset THEN <<>>
           ELSE IF cursor >= Len(text) \/ text[cursor + 1] # "$" THEN <<>>
           ELSE Slice(text, offset, cursor + 1)

\* PassSingleQuote with the ";" test of the normal state run first
PassSingleQuoteSplitting(text, i, state, fco) ==
  LET char == CharAt(text, i)
      next == CharAt(text, i + 1)
  IN  IF char = ";" THEN Pass(i + 1, state, NoOffset, TRUE)
      ELSE IF char = "'" /\ next = "'" THEN Pass(i + 2, state, fco, FALSE)
      ELSE IF char = "'" THEN Pass(i + 1, StateNormal, fco, FALSE)
      ELSE Pass(i + 1, state, fco, FALSE)

PassSingleQuote(text, i, state, fco) ==
  LET char == CharAt(text, i)
      next == CharAt(text, i + 1)
  IN  IF char = "'" /\ next = "'" THEN Pass(i + 2, state, fco, FALSE)
      ELSE IF char = "'" THEN Pass(i + 1, StateNormal, fco, FALSE)
      ELSE Pass(i + 1, state, fco, FALSE)

PassDoubleQuote(text, i, state, fco) ==
  LET char == CharAt(text, i)
      next == CharAt(text, i + 1)
  IN  IF char = "\"" /\ next = "\"" THEN Pass(i + 2, state, fco, FALSE)
      ELSE IF char = "\"" THEN Pass(i + 1, StateNormal, fco, FALSE)
      ELSE Pass(i + 1, state, fco, FALSE)

PassLineComment(text, i, state, fco) ==
  IF CharAt(text, i) = "\n" THEN Pass(i + 1, StateNormal, fco, FALSE)
  ELSE Pass(i + 1, state, fco, FALSE)

\* a block-comment branch in which the first "*/" ends the comment
PassBlockCommentFlat(text, i, state, fco) ==
  IF CharAt(text, i) = "*" /\ CharAt(text, i + 1) = "/"
  THEN Pass(i + 2, StateNormal, fco, FALSE)
  ELSE Pass(i + 1, state, fco, FALSE)

PassBlockComment(text, i, state, fco) ==
  LET char == CharAt(text, i)
      next == CharAt(text, i + 1)
  IN  IF char = "/" /\ next = "*"
      THEN Pass(i + 2, StateBlockComment(state.depth + 1), fco, FALSE)
      ELSE IF char = "*" /\ next = "/"
      THEN IF state.depth <= 1
           THEN Pass(i + 2, StateNormal, fco, FALSE)
           ELSE Pass(i + 2, StateBlockComment(state.depth - 1), fco, FALSE)
      ELSE Pass(i + 1, state, fco, FALSE)

PassDollarQuote(text, i, state, fco) ==
  IF StartsWith(text, state.delimiter, i)
  THEN Pass(i + Len(state.delimiter), StateNormal, fco, FALSE)
  ELSE Pass(i + 1, state, fco, FALSE)

PassNormal(text, i, state, fco) ==
  LET char == CharAt(text, i)
      next == CharAt(text, i + 1)
      content == IF fco = NoOffset THEN i ELSE fco
      delimiter == ReadDollarQuoteDelimiter(text, i)
  IN  IF char = "-" /\ next = "-" THEN Pass(i + 2, StateLineComment, fco, FALSE)
      ELSE IF char = "/" /\ next = "*" THEN Pass(i + 2, StateBlockComment(1), fco, FALSE)
      ELSE IF char = ";" THEN Pass(i + 1, state, NoOffset, TRUE)
      ELSE IF char = "'" THEN Pass(i + 1, StateSingleQuote, content, FALSE)
      ELSE IF char = "\"" THEN Pass(i + 1, StateDoubleQuote, content, FALSE)
      ELSE IF char = "$" /\ delimiter # <<>>
      THEN Pass(i + Len(delimiter), StateDollarQuote(delimiter), content, FALSE)
      ELSE IF ~IsWhitespace(char) THEN Pass(i + 1, state, content, FALSE)
      ELSE Pass(i + 1, state, fco, FALSE)

\* the body of the for loop: the branch taken depends on state.kind
ScanPass(text, i, state, fco) ==
  CASE state.kind = "singleQuote"  -> PassSingleQuote(text, i, state, fco)
    [] state.kind = "doubleQuote"  -> PassDoubleQuote(text, i, state, fco)
    [] state.kind = "lineComment"  -> PassLineComment(text, i, state, fco)
    [] state.kind = "blockComment" -> PassBlockComment(text, i, state, fco)
    [] state.kind = "dollarQuote"  -> PassDollarQuote(text, i, state, fco)
    [] OTHER                       -> PassNormal(text, i, state, fco)

Segment(rawEnd, fco) == [rawEnd |-> rawEnd, firstContentOffset |-> fco]

\* the variables of scanSqlSegments before the pass at offset i, with the
\* record of the passes made
Scan(i, state, fco, segs, seen) ==
  [i |-> i, state |-> state, fco |-> fco, segments |-> segs, visited |-> seen]

\* the pass of the for loop at scan.i: what it leaves for the next pass
ScanStep(text, scan) ==
  LET pass == ScanPass(text, scan.i, scan.state, scan.fco)
  IN  Scan(pass.i, pass.state, pass.fco,
           IF pass.push
           THEN Append(scan.segments, Segment(scan.i, scan.fco))
           ELSE scan.segments,
           scan.visited \cup {[offset |-> scan.i, kind |-> scan.state.kind]})

\* the passes of the for loop at the offsets lo..hi, in increasing order; an
\* offset the index has jumped over (i += 1 or i += delimiter.length - 1
\* in the pass before it) has no pass.  The range is halved rather than
\* walked so that the evaluation stays shallow on long texts.
RECURSIVE ScanLoop(_, _, _, _)
ScanLoop(text, lo, hi, scan) ==
  IF lo > hi \/ scan.i > hi THEN scan
  ELSE IF lo = hi THEN ScanStep(text, scan)
  ELSE LET mid == (lo + hi) \div 2
       IN  ScanLoop(text, mid + 1, hi, ScanLoop(text, lo, mid, scan))

\* a scan that does not push the segment that is open when the loop ends
ScanRunWithoutLastSegment(text) ==
  LET scan == ScanLoop(text, 0, Len(text) - 1, Scan(0, StateNormal, NoOffset, <<>>, {}))
  IN  [segments |-> scan.segments, visited |-> scan.visited, state |-> scan.state]

\* scanSqlSegments together with the record of its loop iterations: the for
\* loop, then the push of the last segment; with the state the loop ended in
ScanRun(text) ==
  LET scan == ScanLoop(text, 0, Len(text) - 1, Scan(0, StateNormal, NoOffset, <<>>, {}))
  IN  [segments |-> Append(scan.segments, Segment(Len(text), scan.fco)),
       visited |-> scan.visited,
       state |-> scan.state]

ScanSqlSegments(text) == ScanRun(text).segments

(***************************************************************************)
(* Statement resolver                                                      *)
(***************************************************************************)
\* a string | null result
Null == [isNull |-> TRUE, text |-> <<>>]
Some(text) == [isNull |-> FALSE, text |-> text]
NullIfEmpty(text) == IF Len(text) > 0 THEN Some(text) ELSE Null

\* segments.map(rawEnd).filter(offset < text.length), from the k-th segment on
RECURSIVE SeparatorsFrom(_, _, _)
SeparatorsFrom(segs, textLength, k) ==
  IF k > Len(segs) THEN <<>>
  ELSE IF segs[k].rawEnd < textLength
  THEN <<segs[k].rawEnd>> \o SeparatorsFrom(segs, textLength, k + 1)
  ELSE SeparatorsFrom(segs, textLength, k + 1)

\* collectSeparatorOffsets
CollectSeparatorOffsets(text) == SeparatorsFrom(ScanSqlSegments(text), Len(text), 1)

RECURSIVE FindSegmentStartFrom(_, _, _)
FindSegmentStartFrom(cursorOffset, separators, k) ==
  IF k < 1 THEN 0
  ELSE IF separators[k] <= cursorOffset - 1 THEN separators[k] + 1
  ELSE FindSegmentStartFrom(cursorOffset, separators, k - 1)

\* findSegmentStart comparing with cursorOffset instead of cursorOffset - 1
FindSegmentStartInclusive(cursorOffset, separators) ==
  FindSegmentStartFrom(cursorOffset + 1, separators, Len(separators))

\* findSegmentStart comparing with cursorOffset - 2
FindSegmentStartEarly(cursorOffset, separators) ==
  FindSegmentStartFrom(cursorOffset - 1, separators, Len(separators))

\* findSegmentStart
FindSegmentStart(cursorOffset, separators) ==
  FindSegmentStartFrom(cursorOffset, separators, Len(separators))

RECURSIVE FindSegmentEndFrom(_, _, _, _)
FindSegmentEndFrom(cursorOffset, separators, textLength, k) ==
  IF k > Len(separators) THEN textLength
  ELSE IF separators[k] >= cursorOffset THEN separators[k]
  ELSE FindSegmentEndFrom(cursorOffset, separators, textLength, k + 1)

\* findSegmentEnd
FindSegmentEnd(cursorOffset, separators, textLength) ==
  FindSegmentEndFrom(cursorOffset, separators, textLength, 1)

\* getSqlToRun(editor) for a selection [from, to) whose active end is `to`
GetSqlToRun(text, from, to) ==
  IF from # to THEN NullIfEmpty(Trim(Slice(text, from, to)))
  ELSE IF Len(Trim(text)) = 0 THEN Null
  ELSE LET cursorOffset == to
           separators == CollectSeparatorOffsets(text)
           startIndex == FindSegmentStart(cursorOffset, separators)
           endIndex == FindSegmentEnd(cursorOffset, separators, Len(text))
       IN  NullIfEmpty(Trim(Slice(text, startIndex, endIndex)))

\* getAllSqlToRun
GetAllSqlToRun(text) == NullIfEmpty(Trim(text))

\* a trimRightWhitespace that removes nothing
TrimRightWhitespaceNothing(text, index) == index

\* trimRightWhitespace
RECURSIVE TrimRightWhitespace(_, _)
TrimRightWhitespace(text, index) ==
  IF index > 0 /\ IsWhitespace(text[index]) THEN TrimRightWhitespace(text, index - 1)
  ELSE index

\* a getSqlStatements that makes a statement of every segment
StatementOfEverySegment(text, segment) ==
  LET from == IF segment.firstContentOffset = NoOffset THEN segment.rawEnd
              ELSE segment.firstContentOffset
  IN  <<[text |-> TrimEnd(Slice(text, from, segment.rawEnd)), from |-> from,
         to |-> segment.rawEnd]>>

\* the statement getSqlStatements builds from one segment, <<>> when it
\* skips the segment; from/to are the offsets of the statement's range
StatementOf(text, segment) ==
  IF segment.firstContentOffset = NoOffset THEN <<>>
  ELSE LET end == TrimRightWhitespace(text, segment.rawEnd)
       IN  IF end <= segment.firstContentOffset THEN <<>>
           ELSE LET statement == TrimEnd(Slice(text, segment.firstContentOffset, end))
                IN  IF Len(statement) = 0 THEN <<>>
                    ELSE <<[text |-> statement,
                            from |-> segment.firstContentOffset,
                            to |-> end]>>

RECURSIVE StatementsFrom(_, _, _)
StatementsFrom(text, segs, k) ==
  IF k > Len(segs) THEN <<>>
  ELSE StatementOf(text, segs[k]) \o StatementsFrom(text, segs, k + 1)

\* getSqlStatements
GetSqlStatements(text) == StatementsFrom(text, ScanSqlSegments(text), 1)

(***************************************************************************)
(* Documents the editor operations are run on                              *)
(***************************************************************************)
\* the characters the scanner distinguishes; "\n" is the white space and
\* "a" the content (and dollar-tag) character
ScanAlphabet == {";", "'", "\"", "-", "\n", "/", "*", "$", "a"}

TextsUpTo(n) == UNION {[1..k -> ScanAlphabet] : k \in 0..n}

\* documents of the sqlText test suite
DocTwoTerminated ==
  <<"S", "E", "L", "E", "C", "T", " ", "1", ";", "S", "E", "L", "E", "C", "T", " ", "2", ";">>
DocTwoOpenEnded ==
  <<"S", "E", "L", "E", "C", "T", " ", "1", ";", "S", "E", "L", "E", "C", "T", " ", "2">>
DocOneTerminated ==
  <<"S", "E", "L", "E", "C", "T", " ", "1", ";">>
DocThreeLines ==
  <<"S", "E", "L", "E", "C", "T", " ", "1", ";", "\n", "S", "E", "L", "E", "C", "T", " ", "2",
    ";", "\n", "S", "E", "L", "E", "C", "T", " ", "3", ";">>
DocCommentChunks ==
  <<"-", "-", " ", "h", "e", "a", "d", "i", "n", "g", " ", "c", "o", "m", "m", "e", "n", "t",
    "\n", "S", "E", "L", "E", "C", "T", " ", "1", ";", "\n", "/", "*", " ", "s", "p", "l", "i",
    "t", " ", "*", "/", "\n", "S", "E", "L", "E", "C", "T", " ", "2", ";", "\n", "-", "-", " ",
    "t", "r", "a", "i", "l", "i", "n", "g">>
DocQuotedSemicolons ==
  <<"S", "E", "L", "E", "C", "T", " ", "'", ";", "'", " ", "A", "S", " ", "x", ";", "\n", "S",
    "E", "L", "E", "C", "T", " ", "1", " ", "/", "*", " ", ";", " ", "*", "/", ";", "\n", "D",
    "O", " ", "$", "$", "\n", "B", "E", "G", "I", "N", "\n", " ", " ", "R", "A", "I", "S", "E",
    " ", "N", "O", "T", "I", "C", "E", " ", "'", ";", "'", ";", "\n", "E", "N", "D", "\n", "$",
    "$", ";", "\n", "S", "E", "L", "E", "C", "T", " ", "3", ";">>
\* a document with a blank segment, a comment-only segment and an open-ended
\* last statement behind a comment
DocSkippedSegments ==
  <<"S", "E", "L", "E", "C", "T", " ", "1", ";", " ", ";", "-", "-", " ", "c", "\n", ";", "/",
    "*", " ", "b", " ", "*", "/", " ", "S", "E", "L", "E", "C", "T", " ", "2", " ">>
\* a document whose segments hold no-break spaces: alone, after a statement
\* and before one
DocNoBreakSpaces ==
  <<NoBreakSpace, ";", "S", "E", "L", "E", "C", "T", " ", "1", NoBreakSpace, ";",
    NoBreakSpace, "a">>
DocBlank ==
  <<"\n", " ", " ", "\n">>

SuiteDocuments ==
  {DocTwoTerminated, DocTwoOpenEnded, DocOneTerminated, DocThreeLines,
   DocCommentChunks, DocQuotedSemicolons, DocBlank, DocSkippedSegments,
   DocNoBreakSpaces}

\* documents of nested block comments: up to MaxNestTokens of the tokens
\* "/*", "*/" and ";" in a row
NestTokens == {<<"/", "*">>, <<"*", "/">>, <<";">>}

RECURSIVE Concat(_, _)
Concat(tokens, k) == IF k > Len(tokens) THEN <<>> ELSE tokens[k] \o Concat(tokens, k + 1)

NestedCommentTexts ==
  {Concat(tokens, 1) : tokens \in UNION {[1..n -> NestTokens] : n \in 0..MaxNestTokens}}

Documents == TextsUpTo(MaxTextLen) \cup SuiteDocuments \cup NestedCommentTexts

InitSqlOff ==
  /\ docText = <<>>
  /\ selStart = 0
  /\ selEnd = 0
  /\ sqlPc = "off"
  /\ segments = <<>>
  /\ visited = {}
  /\ statements = <<>>
  /\ sqlToRun = Null

InitSql ==
  /\ docText \in Documents
  /\ selStart = 0
  /\ selEnd = 0
  /\ sqlPc = "idle"
  /\ segments = <<>>
  /\ visited = {}
  /\ statements = <<>>
  /\ sqlToRun = Null

\* scanSqlSegments(document.getText())
ScanDocument ==
  /\ sqlPc = "idle"
  /\ sqlPc' = "scanned"
  /\ segments' = ScanRun(docText).segments
  /\ visited' = ScanRun(docText).visited
  /\ UNCHANGED <<docText, selStart, selEnd, statements, sqlToRun>>
  /\ UNCHANGED otherThanSql

\* getSqlStatements(document), as the CodeLens provider calls it
ListStatements ==
  /\ sqlPc = "idle"
  /\ sqlPc' = "listed"
  /\ statements' = GetSqlStatements(docText)
  /\ UNCHANGED <<docText, selStart, selEnd, segments, visited, sqlToRun>>
  /\ UNCHANGED otherThanSql

\* getSqlToRun(editor) with the selection the user has made
RunAtSelection ==
  /\ sqlPc = "idle"
  /\ \E from \in 0..Len(docText) : \E to \in from..Len(docText) :
       /\ selStart' = from
       /\ selEnd' = to
       /\ sqlToRun' = GetSqlToRun(docText, from, to)
  /\ sqlPc' = "resolved"
  /\ UNCHANGED <<docText, segments, visited, statements>>
  /\ UNCHANGED otherThanSql

(***************************************************************************)
(* PostgresDialect and the statement builders of PostgresTableDataProvider *)
(***************************************************************************)
KwUpdate == <<"U", "P", "D", "A", "T", "E", " ">>
KwSet == <<" ", "S", "E", "T", " ">>
KwWhereCtid == <<" ", "W", "H", "E", "R", "E", " ", "c", "t", "i", "d", " ", "=", " ", "$">>
KwTidEnd == <<":", ":", "t", "i", "d", ";">>
KwInsertInto == <<"I", "N", "S", "E", "R", "T", " ", "I", "N", "T", "O", " ">>
KwOpenParen == <<" ", "(">>
KwValues == <<")", " ", "V", "A", "L", "U", "E", "S", " ", "(">>
KwCloseEnd == <<")", ";">>
KwDeleteFrom == <<"D", "E", "L", "E", "T", "E", " ", "F", "R", "O", "M", " ">>
KwDeleteWhere ==
  <<" ", "W", "H", "E", "R", "E", " ", "c", "t", "i", "d", " ", "=", " ", "$", "1",
    ":", ":", "t", "i", "d", ";">>
KwCommaSpace == <<",", " ">>
KwEquals == <<" ", "=", " ", "$">>
KwDot == <<".">>
SqlBegin == <<"B", "E", "G", "I", "N">>
SqlCommit == <<"C", "O", "M", "M", "I", "T">>
SqlRollback == <<"R", "O", "L", "L", "B", "A", "C", "K">>

DigitChars == <<"0", "1", "2", "3", "4", "5", "6", "7", "8", "9">>

\* the decimal text of a number, as a template literal prints it
RECURSIVE Decimal(_)
Decimal(n) ==
  IF n < Len(DigitChars) THEN <<DigitChars[n + 1]>>
  ELSE Decimal(n \div Len(DigitChars)) \o <<DigitChars[(n % Len(DigitChars)) + 1]>>

\* identifier.replace(/"/g, "\"\"")
RECURSIVE DoubleQuotes(_)
DoubleQuotes(identifier) ==
  IF identifier = <<>> THEN <<>>
  ELSE (IF Head(identifier) = "\"" THEN <<"\"", "\"">> ELSE <<Head(identifier)>>)
       \o DoubleQuotes(Tail(identifier))

\* a quoteIdentifier that leaves embedded double quotes as they are
QuoteIdentifierUnescaped(identifier) == <<"\"">> \o identifier \o <<"\"">>

\* PostgresDialect.quoteIdentifier
QuoteIdentifier(identifier) == <<"\"">> \o DoubleQuotes(identifier) \o <<"\"">>

\* parts.join(separator)
RECURSIVE Join(_, _)
Join(parts, separator) ==
  IF parts = <<>> THEN <<>>
  ELSE IF Len(parts) = 1 THEN parts[1]
  ELSE parts[1] \o separator \o Join(Tail(parts), separator)

\* `${quote(schemaName)}.${quote(tableName)}`
Qualified(table) ==
  QuoteIdentifier(table.schemaName) \o KwDot \o QuoteIdentifier(table.tableName)

\* columns[columnIndex]; <<>> stands for a falsy column name
ColumnAt(columns, columnIndex) ==
  IF columnIndex >= 0 /\ columnIndex < Len(columns) THEN columns[columnIndex + 1] ELSE <<>>

\* update.isNull ? null : update.value
BoundValue(update) == IF update.isNull THEN Null ELSE Some(update.value)

\* a builder's { sql, values } result; `kind` and `columns` repeat what the
\* text says (the command and the unquoted target columns) for the engine
Statement(kind, sql, values, columns) ==
  [defined |-> TRUE, kind |-> kind, sql |-> sql, values |-> values, columns |-> columns]

\* a builder's undefined result
NoStatement ==
  [defined |-> FALSE, kind |-> "none", sql |-> <<>>, values |-> <<>>, columns |-> <<>>]

\* the cell updates a builder's loop keeps, in order: buildUpdateStatement
\* keeps every update with a resolvable column
RECURSIVE ResolvableUpdates(_, _)
ResolvableUpdates(columns, updates) ==
  IF updates = <<>> THEN <<>>
  ELSE IF ColumnAt(columns, Head(updates).columnIndex) = <<>>
  THEN ResolvableUpdates(columns, Tail(updates))
  ELSE <<Head(updates)>> \o ResolvableUpdates(columns, Tail(updates))

\* buildUpdateStatement
BuildUpdateStatement(table, columns, change) ==
  IF Len(change.updates) = 0 THEN NoStatement
  ELSE LET kept == ResolvableUpdates(columns, change.updates)
           setClauses == [k \in 1..Len(kept) |->
                            QuoteIdentifier(ColumnAt(columns, kept[k].columnIndex))
                              \o KwEquals \o Decimal(k)]
           values == [k \in 1..Len(kept) |-> BoundValue(kept[k])]
                       \o <<Some(change.rowLocator)>>
       IN  IF Len(kept) = 0 THEN NoStatement
           ELSE Statement("UPDATE",
                  KwUpdate \o Qualified(table) \o KwSet \o Join(setClauses, KwCommaSpace)
                    \o KwWhereCtid \o Decimal(Len(values)) \o KwTidEnd,
                  values,
                  [k \in 1..Len(kept) |-> ColumnAt(columns, kept[k].columnIndex)])

\* a loop of buildInsertStatement that keeps every resolvable cell
EveryResolvableUpdate(columns, updates, seenColumns) == ResolvableUpdates(columns, updates)

\* the loop of buildInsertStatement: skips an update whose columnIndex was
\* seen before, then one whose column does not resolve
RECURSIVE FirstResolvableUpdates(_, _, _)
FirstResolvableUpdates(columns, updates, seenColumns) ==
  IF updates = <<>> THEN <<>>
  ELSE IF Head(updates).columnIndex \in seenColumns
  THEN FirstResolvableUpdates(columns, Tail(updates), seenColumns)
  ELSE IF ColumnAt(columns, Head(updates).columnIndex) = <<>>
  THEN FirstResolvableUpdates(columns, Tail(updates), seenColumns)
  ELSE <<Head(updates)>>
         \o FirstResolvableUpdates(columns, Tail(updates),
                                   seenColumns \cup {Head(updates).columnIndex})

\* buildInsertStatement
BuildInsertStatement(table, columns, change) ==
  IF Len(change.values) = 0 THEN NoStatement
  ELSE LET kept == FirstResolvableUpdates(columns, change.values, {})
           columnNames == [k \in 1..Len(kept) |->
                             QuoteIdentifier(ColumnAt(columns, kept[k].columnIndex))]
           placeholders == [k \in 1..Len(kept) |-> <<"$">> \o Decimal(k)]
       IN  IF Len(kept) = 0 THEN NoStatement
           ELSE Statement("INSERT",
                  KwInsertInto \o Qualified(table) \o KwOpenParen
                    \o Join(columnNames, KwCommaSpace) \o KwValues
                    \o Join(placeholders, KwCommaSpace) \o KwCloseEnd,
                  [k \in 1..Len(kept) |-> BoundValue(kept[k])],
                  [k \in 1..Len(kept) |-> ColumnAt(columns, kept[k].columnIndex)])

\* buildDeleteStatement without its rowLocator test
BuildDeleteStatementUnchecked(table, change) ==
  Statement("DELETE",
    KwDeleteFrom \o Qualified(table) \o KwDeleteWhere,
    <<Some(change.rowLocator)>>,
    <<>>)

\* buildDeleteStatement
BuildDeleteStatement(table, change) ==
  IF change.rowLocator = <<>> THEN NoStatement
  ELSE Statement("DELETE",
         KwDeleteFrom \o Qualified(table) \o KwDeleteWhere,
         <<Some(change.rowLocator)>>,
         <<>>)

\* the statement saveChanges builds for one change of the request
BuildStatement(table, columns, change) ==
  IF change.kind = "insert" THEN BuildInsertStatement(table, columns, change)
  ELSE IF change.kind = "delete" THEN BuildDeleteStatement(table, change)
  ELSE BuildUpdateStatement(table, columns, change)

\* readRowCount; NoCount stands for a rowCount that is not a number
NoCount == 0 - 1

\* a readRowCount that counts every statement as one row
ReadRowCountAsOne(result) == 1

ReadRowCount(result) == IF result.rowCount # NoCount THEN result.rowCount ELSE 0

(***************************************************************************)
(* The table behind the provider: one PostgreSQL relation addressed by     *)
(* ctid.  The engine honours BEGIN / COMMIT / ROLLBACK, runs a statement   *)
(* outside a transaction in autocommit mode, and may fail any query.       *)
(***************************************************************************)
SchemaPublic == <<"p", "u", "b", "l", "i", "c">>
TableUsers == <<"u", "s", "e", "r", "s">>
ColumnId == <<"i", "d">>
ColumnDisplayName == <<"d", "i", "s", "p", "l", "a", "y", "\"", "n", "a", "m", "e">>
ValueAda == <<"A", "d", "a">>
ValueBob == <<"B", "o", "b">>

UsersTable == [schemaName |-> SchemaPublic, tableName |-> TableUsers]
TableColumns == <<ColumnId, ColumnDisplayName>>

\* ctid::text of the tuple in slot n of block 0
Tid(n) == <<"(", "0", ",">> \o Decimal(n) \o <<")">>

NoRow == <<>>
InitialRows == <<<<Some(<<"1">>), Some(ValueAda)>>, <<Some(<<"2">>), Null>>>>

\* tuple slots: enough for every row version a batch can create
Slots == 1..(Len(InitialRows) + MaxChanges)

InitialTable == [n \in Slots |-> IF n <= Len(InitialRows) THEN InitialRows[n] ELSE NoRow]

\* the slot a tid text names, 0 when the text is no tid of this block
SlotOfTid(text) ==
  IF \E n \in 1..Len(DigitChars) - 1 : Tid(n) = text
  THEN CHOOSE n \in 1..Len(DigitChars) - 1 : Tid(n) = text
  ELSE 0

FreeSlot(table) == CHOOSE n \in Slots : table[n] = NoRow /\ \A m \in Slots : m < n => table[m] # NoRow

ColumnPosition(name) == CHOOSE k \in 1..Len(TableColumns) : TableColumns[k] = name

RECURSIVE AssignColumns(_, _, _, _)
AssignColumns(row, columns, values, k) ==
  IF k > Len(columns) THEN row
  ELSE AssignColumns([row EXCEPT ![ColumnPosition(columns[k])] = values[k]],
                     columns, values, k + 1)

HasDuplicates(columns) ==
  \E j, k \in 1..Len(columns) : j < k /\ columns[j] = columns[k]

\* queries the engine rejects whatever the data: text that is no tid cast
\* to tid, and an UPDATE assigning one column twice
AlwaysFails(statement) ==
  \/ statement.kind \in {"UPDATE", "DELETE"}
       /\ SlotOfTid(statement.values[Len(statement.values)].text) = 0
  \/ statement.kind = "UPDATE" /\ HasDuplicates(statement.columns)

\* the verdicts the engine can give a query
Verdicts(statement) == IF AlwaysFails(statement) THEN {"error"} ELSE {"ok", "error"}

\* rows and affected-row count after a data statement that succeeds; an
\* UPDATE stores the new row version in a fresh slot, as PostgreSQL does
Applied(table, statement) ==
  LET slot == SlotOfTid(statement.values[Len(statement.values)].text)
      blank == [k \in 1..Len(TableColumns) |-> Null]
  IN  CASE statement.kind = "UPDATE" ->
             IF slot \in Slots /\ table[slot] # NoRow
             THEN [table |-> [table EXCEPT
                                ![slot] = NoRow,
                                ![FreeSlot(table)] =
                                   AssignColumns(table[slot], statement.columns,
                                                 statement.values, 1)],
                   rowCount |-> 1]
             ELSE [table |-> table, rowCount |-> 0]
        [] statement.kind = "DELETE" ->
             IF slot \in Slots /\ table[slot] # NoRow
             THEN [table |-> [table EXCEPT ![slot] = NoRow], rowCount |-> 1]
             ELSE [table |-> table, rowCount |-> 0]
        [] statement.kind = "INSERT" ->
             [table |-> [table EXCEPT
                           ![FreeSlot(table)] =
                              AssignColumns(blank, statement.columns, statement.values, 1)],
              rowCount |-> 1]
        [] OTHER -> [table |-> table, rowCount |-> NoCount]

\* a query text with no parameters and no target, such as BEGIN
Control(sql) == Statement("CONTROL", sql, <<>>, <<>>)

\* the backend after a query: committed rows, rows in the transaction,
\* transaction state and the result handed to the caller
Backend(db, tx, state, rowCount) ==
  [dbTable |-> db, txTable |-> tx, txState |-> state, rowCount |-> rowCount]

Execute(db, tx, state, statement, verdict) ==
  IF statement.sql = SqlBegin
  THEN IF verdict = "ok" /\ state = "idle" THEN Backend(db, db, "open", NoCount)
       ELSE Backend(db, tx, state, NoCount)
  ELSE IF statement.sql = SqlCommit
  THEN IF verdict = "ok" /\ state = "open" THEN Backend(tx, tx, "idle", NoCount)
       ELSE Backend(db, db, "idle", NoCount)
  ELSE IF statement.sql = SqlRollback
  THEN IF verdict = "ok" THEN Backend(db, db, "idle", NoCount)
       ELSE Backend(db, tx, state, NoCount)
  ELSE IF verdict = "error" \/ state = "failed"
  THEN Backend(db, tx, IF state = "idle" THEN "idle" ELSE "failed", NoCount)
  ELSE IF state = "open"
  THEN Backend(db, Applied(tx, statement).table, state, Applied(tx, statement).rowCount)
  ELSE Backend(Applied(db, statement).table, Applied(db, statement).table, state,
               Applied(db, statement).rowCount)

(***************************************************************************)
(* PostgresTableDataProvider.saveChanges                                   *)
(***************************************************************************)
Cell(columnIndex, value, isNull) ==
  [columnIndex |-> columnIndex, value |-> value, isNull |-> isNull]

UpdateChange(rowLocator, updates) ==
  [kind |-> "update", rowLocator |-> rowLocator, updates |-> updates, values |-> <<>>]
InsertChange(values) ==
  [kind |-> "insert", rowLocator |-> <<>>, updates |-> <<>>, values |-> values]
DeleteChange(rowLocator) ==
  [kind |-> "delete", rowLocator |-> rowLocator, updates |-> <<>>, values |-> <<>>]

\* the changes a request is made of; column index 0 is id, 1 is
\* display"name and 9 resolves to no column
ChangePool ==
  { UpdateChange(Tid(1), <<Cell(1, ValueBob, FALSE)>>),
    UpdateChange(Tid(2), <<Cell(9, ValueAda, FALSE), Cell(1, <<>>, TRUE)>>),
    UpdateChange(Tid(1), <<Cell(9, ValueAda, FALSE)>>),
    UpdateChange(Tid(1), <<>>),
    UpdateChange(<<>>, <<Cell(1, ValueAda, FALSE)>>),
    UpdateChange(Tid(9), <<Cell(1, ValueBob, FALSE)>>),
    UpdateChange(Tid(2), <<Cell(1, ValueAda, FALSE),
                           Cell(1, ValueBob, FALSE)>>),
    InsertChange(<<Cell(1, ValueAda, FALSE),
                   Cell(1, ValueBob, FALSE),
                   Cell(0, <<>>, TRUE),
                   Cell(9, ValueBob, FALSE)>>),
    InsertChange(<<Cell(9, ValueBob, FALSE)>>),
    InsertChange(<<>>),
    DeleteChange(Tid(1)),
    DeleteChange(Tid(9)),
    DeleteChange(<<>>) }

Batches == UNION {[1..n -> ChangePool] : n \in 0..MaxChanges}

NoError == [at |-> "none", index |-> 0]
ErrorAt(at, index) == [at |-> at, index |-> index]

ZeroCounts == [updatedRows |-> 0, insertedRows |-> 0, deletedRows |-> 0]
Pending == [kind |-> "pending", counts |-> ZeroCounts, error |-> NoError]
Returned(counts) == [kind |-> "returned", counts |-> counts, error |-> NoError]
Thrown(error) == [kind |-> "thrown", counts |-> ZeroCounts, error |-> error]

SaveIdle ==
  /\ saveRequest = [table |-> UsersTable, columns |-> <<>>, changes |-> <<>>]
  /\ savePc = "off"
  /\ saveIndex = 1
  /\ saveCounts = ZeroCounts
  /\ saveCaught = NoError
  /\ saveOutcome = Pending
  /\ acquired = 0
  /\ released = 0
  /\ issued = <<>>
  /\ dbTable = InitialTable
  /\ txTable = InitialTable
  /\ txState = "idle"

InitSave ==
  /\ saveRequest \in [table : {UsersTable}, columns : {TableColumns, <<>>}, changes : Batches]
  /\ savePc = "called"
  /\ saveIndex = 1
  /\ saveCounts = ZeroCounts
  /\ saveCaught = NoError
  /\ saveOutcome = Pending
  /\ acquired = 0
  /\ released = 0
  /\ issued = <<>>
  /\ dbTable = InitialTable
  /\ txTable = InitialTable
  /\ txState = "idle"

\* client.query(...) on the acquired client; the query is recorded with the
\* engine's verdict and the row count of its result
Query(statement, verdict) ==
  LET after == Execute(dbTable, txTable, txState, statement, verdict)
  IN  /\ issued' = Append(issued, [statement |-> statement, verdict |-> verdict,
                                   rowCount |-> after.rowCount])
      /\ dbTable' = after.dbTable
      /\ txTable' = after.txTable
      /\ txState' = after.txState

\* an early return for an empty change list only
NothingToSaveWithoutChanges(request) == Len(request.changes) = 0

\* the early return of saveChanges
NothingToSave(request) == Len(request.changes) = 0 \/ Len(request.columns) = 0

\* no query text where BEGIN should be
OpeningQueryMissing == <<>>

\* the query that opens the transaction
OpeningQuery == SqlBegin

\* the query of the catch block
CatchQuery == SqlRollback

\* what the promise rejects with once the catch block has run its query
Rethrown(caught, verdict) == IF verdict = "ok" THEN caught ELSE ErrorAt("ROLLBACK", 0)

\* client.release() calls made on the way out, only when the call returns
ReleasesOnReturnOnly(exit) == IF exit = "return" THEN 1 ELSE 0

\* client.release() calls the finally block makes on the way out
Releases(exit) == IF exit \in {"return", "throw"} THEN 1 ELSE 0

\* the counter a successful statement adds its row count to
Counted(counts, change, result) ==
  IF change.kind = "insert"
  THEN [counts EXCEPT !.insertedRows = @ + ReadRowCount(result)]
  ELSE IF change.kind = "delete"
  THEN [counts EXCEPT !.deletedRows = @ + ReadRowCount(result)]
  ELSE [counts EXCEPT !.updatedRows = @ + ReadRowCount(result)]

\* saveChanges up to `await this.driver.connect()`
SaveCall ==
  /\ savePc = "called"
  /\ IF NothingToSave(saveRequest)
     THEN savePc' = "settled" /\ saveOutcome' = Returned(ZeroCounts)
     ELSE savePc' = "connecting" /\ UNCHANGED saveOutcome
  /\ UNCHANGED <<saveRequest, saveIndex, saveCounts, saveCaught, acquired, released,
                 issued, dbTable, txTable, txState>>
  /\ UNCHANGED otherThanSave

\* driver.connect() settles: a client, or a rejection outside the try block
SaveConnect ==
  /\ savePc = "connecting"
  /\ \E verdict \in {"ok", "error"} :
       IF verdict = "ok"
       THEN savePc' = "begin" /\ acquired' = acquired + 1 /\ UNCHANGED saveOutcome
       ELSE savePc' = "settled" /\ saveOutcome' = Thrown(ErrorAt("connect", 0))
              /\ UNCHANGED acquired
  /\ UNCHANGED <<saveRequest, saveIndex, saveCounts, saveCaught, released,
                 issued, dbTable, txTable, txState>>
  /\ UNCHANGED otherThanSave

\* await client.query("BEGIN")
SaveBegin ==
  /\ savePc = "begin"
  /\ \E verdict \in Verdicts(Control(OpeningQuery)) :
       /\ Query(Control(OpeningQuery), verdict)
       /\ IF verdict = "ok"
          THEN savePc' = "loop" /\ UNCHANGED saveCaught
          ELSE savePc' = "catch" /\ saveCaught' = ErrorAt("BEGIN", 0)
  /\ UNCHANGED <<saveRequest, saveIndex, saveCounts, saveOutcome, acquired, released>>
  /\ UNCHANGED otherThanSave

\* one pass of the for loop: a change with no statement is skipped, any
\* other has its statement awaited and its row count added
SaveChange ==
  /\ savePc = "loop"
  /\ saveIndex <= Len(saveRequest.changes)
  /\ LET change == saveRequest.changes[saveIndex]
         statement == BuildStatement(saveRequest.table, saveRequest.columns, change)
     IN  IF ~statement.defined
         THEN /\ saveIndex' = saveIndex + 1
              /\ UNCHANGED <<savePc, saveCounts, saveCaught, issued, dbTable, txTable, txState>>
         ELSE \E verdict \in Verdicts(statement) :
                /\ Query(statement, verdict)
                /\ IF verdict = "ok"
                   THEN /\ saveCounts' =
                             Counted(saveCounts, change,
                                     Execute(dbTable, txTable, txState, statement, verdict))
                        /\ saveIndex' = saveIndex + 1
                        /\ UNCHANGED <<savePc, saveCaught>>
                   ELSE /\ savePc' = "catch"
                        /\ saveCaught' = ErrorAt("statement", saveIndex)
                        /\ UNCHANGED <<saveIndex, saveCounts>>
  /\ UNCHANGED <<saveRequest, saveOutcome, acquired, released>>
  /\ UNCHANGED otherThanSave

\* await client.query("COMMIT"), the return and the finally block
SaveCommit ==
  /\ savePc = "loop"
  /\ saveIndex > Len(saveRequest.changes)
  /\ \E verdict \in Verdicts(Control(SqlCommit)) :
       /\ Query(Control(SqlCommit), verdict)
       /\ IF verdict = "ok"
          THEN /\ savePc' = "settled"
               /\ saveOutcome' = Returned(saveCounts)
               /\ released' = released + Releases("return")
               /\ UNCHANGED saveCaught
          ELSE /\ savePc' = "catch"
               /\ saveCaught' = ErrorAt("COMMIT", 0)
               /\ UNCHANGED <<saveOutcome, released>>
  /\ UNCHANGED <<saveRequest, saveIndex, saveCounts, acquired>>
  /\ UNCHANGED otherThanSave

\* the catch block (await ROLLBACK, then throw) and the finally block
SaveCatch ==
  /\ savePc = "catch"
  /\ \E verdict \in Verdicts(Control(CatchQuery)) :
       /\ Query(Control(CatchQuery), verdict)
       /\ saveOutcome' = Thrown(Rethrown(saveCaught, verdict))
  /\ savePc' = "settled"
  /\ released' = released + Releases("throw")
  /\ UNCHANGED <<saveRequest, saveIndex, saveCounts, saveCaught, acquired>>
  /\ UNCHANGED otherThanSave

(***************************************************************************)
(* PostgresQueryExecutor.runCancelable                                     *)
(***************************************************************************)
DEFAULT_ROW_LIMIT == 10000
CANCELED_ERROR_CODE == "57014"

\* a property that is absent from an object
Undefined == "undefined"

\* options?.rowLimit: absent, or a number
NoRowLimit == [given |-> FALSE, value |-> 0]
RowLimit(n) == [given |-> TRUE, value |-> n]

\* resolveRowLimit, on integers
ResolveRowLimit(rowLimit) ==
  IF ~rowLimit.given THEN DEFAULT_ROW_LIMIT
  ELSE IF rowLimit.value <= 0 THEN DEFAULT_ROW_LIMIT
  ELSE rowLimit.value

\* values a rejected promise of the pool carries
ThrownObject(message, detail, code, position) ==
  [isObject |-> TRUE, message |-> message, detail |-> detail, code |-> code,
   position |-> position]
ThrownString == [isObject |-> FALSE, message |-> Undefined, detail |-> Undefined,
                 code |-> Undefined, position |-> Undefined]

ErrQueryCanceled ==
  ThrownObject("canceling statement due to user request", Undefined, CANCELED_ERROR_CODE, Undefined)
ErrSyntax == ThrownObject("syntax error at or near \"FORM\"", Undefined, "42601", "10")
ErrUnique ==
  ThrownObject("duplicate key value", "Key (id)=(1) already exists.", "23505", Undefined)
ErrConnection == ThrownObject("Connection terminated unexpectedly", Undefined, Undefined, Undefined)
ErrBare == ThrownObject(Undefined, Undefined, Undefined, Undefined)

QueryErrors == {ErrQueryCanceled, ErrSyntax, ErrUnique, ErrConnection, ErrBare, ThrownString}
ConnectErrors == {ErrConnection, ErrQueryCanceled, ThrownString}

\* a normalizeError that keeps the message only
NormalizeErrorMessageOnly(error) ==
  [message |-> IF error.isObject /\ error.message # Undefined THEN error.message
               ELSE "Unknown error",
   detail |-> Undefined, code |-> Undefined, position |-> Undefined]

\* normalizeError
NormalizeError(error) ==
  IF error.isObject
  THEN [message |-> IF error.message = Undefined THEN "Unknown error" ELSE error.message,
        detail |-> error.detail, code |-> error.code, position |-> error.position]
  ELSE [message |-> "Unknown error", detail |-> Undefined, code |-> Undefined,
        position |-> Undefined]

\* values client.query(sql) resolves to: a result object of n rows, one
\* without a numeric rowCount, or something that is no object
RowsUpTo(n) == [k \in 1..n |-> k]
ResultObject(n, counted) ==
  [isObject |-> TRUE, fields |-> <<"id", "name">>, rows |-> RowsUpTo(n),
   rowCount |-> IF counted THEN n ELSE NoCount]
ResultNothing == [isObject |-> FALSE, fields |-> <<>>, rows |-> <<>>, rowCount |-> NoCount]

QueryResults ==
  {ResultObject(n, counted) : n \in 0..MaxRows, counted \in BOOLEAN} \cup {ResultNothing}

\* normalizeQueryResult
NormalizeQueryResult(result) ==
  IF ~result.isObject THEN [fields |-> <<>>, rows |-> <<>>, rowCount |-> NoCount]
  ELSE [fields |-> result.fields, rows |-> result.rows, rowCount |-> result.rowCount]

NoErrorInfo == [present |-> FALSE, message |-> Undefined, detail |-> Undefined,
                code |-> Undefined, position |-> Undefined]
ErrorInfo(normalized, message) ==
  [present |-> TRUE, message |-> message, detail |-> normalized.detail,
   code |-> normalized.code, position |-> normalized.position]

NoResult == [settled |-> FALSE, columns |-> <<>>, rows |-> <<>>, rowCount |-> NoCount,
             truncated |-> FALSE, cancelled |-> FALSE, error |-> NoErrorInfo]

\* the object the try block returns
Completed(result, rowLimit) ==
  LET normalized == NormalizeQueryResult(result)
      truncated == Len(normalized.rows) > rowLimit
  IN  [settled |-> TRUE,
       columns |-> normalized.fields,
       rows |-> IF truncated THEN SubSeq(normalized.rows, 1, rowLimit) ELSE normalized.rows,
       rowCount |-> normalized.rowCount,
       truncated |-> truncated,
       cancelled |-> FALSE,
       error |-> NoErrorInfo]

\* `cancelled` of the catch block with the local flag left out
CancelledByCodeOnly(canceled, normalized) == normalized.code = CANCELED_ERROR_CODE

\* `cancelled` of the catch block
Cancelled(canceled, normalized) == canceled \/ normalized.code = CANCELED_ERROR_CODE

\* the object the catch block returns
Failed(canceled, error) ==
  LET normalized == NormalizeError(error)
      cancelled == Cancelled(canceled, normalized)
      message == IF cancelled THEN "Query cancelled." ELSE normalized.message
  IN  [settled |-> TRUE, columns |-> <<>>, rows |-> <<>>, rowCount |-> NoCount,
       truncated |-> FALSE, cancelled |-> cancelled,
       error |-> ErrorInfo(normalized, message)]

\* client.processID: a backend pid, or 0 for one that is missing
ProcessIds == {0, 4711}

ClientPending == [state |-> "pending", processID |-> 0]
ClientResolved(pid) == [state |-> "resolved", processID |-> pid]
ClientRejected == [state |-> "rejected", processID |-> 0]

NothingYet == [kind |-> "none", error |-> ThrownString, result |-> ResultNothing]
Rejected(error) == [kind |-> "rejected", error |-> error, result |-> ResultNothing]
Resolved(result) == [kind |-> "resolved", error |-> ThrownString, result |-> result]

CancelNotCalled == [pc |-> "idle", returned |-> "none"]
CancelAt(pc) == [pc |-> pc, returned |-> "none"]
CancelReturned(value) == [pc |-> "done", returned |-> IF value THEN "true" ELSE "false"]

RcIdle ==
  /\ rcOptions = NoRowLimit
  /\ rcPc = "off"
  /\ rcCanceled = FALSE
  /\ rcClient = ClientPending
  /\ rcReleased = 0
  /\ rcEngine = NothingYet
  /\ rcResult = NoResult
  /\ rcCancels = [c \in 1..MaxCancels |-> CancelNotCalled]
  /\ rcRequests = <<>>
  /\ rcLog = <<>>

\* runCancelable(sql, options) has returned { promise, cancel }: the flag is
\* false, driver.connect() is under way and the async function waits for it
InitRc ==
  /\ rcOptions \in {NoRowLimit} \cup {RowLimit(n) : n \in 0..2}
  /\ rcPc = "connecting"
  /\ rcCanceled = FALSE
  /\ rcClient = ClientPending
  /\ rcReleased = 0
  /\ rcEngine = NothingYet
  /\ rcResult = NoResult
  /\ rcCancels = [c \in 1..MaxCancels |-> CancelNotCalled]
  /\ rcRequests = <<>>
  /\ rcLog = <<>>

\* clientPromise resolves; the async function sends client.query(sql)
RcConnected ==
  /\ rcPc = "connecting"
  /\ \E pid \in ProcessIds : rcClient' = ClientResolved(pid)
  /\ rcPc' = "querying"
  /\ rcLog' = Append(rcLog, "connected")
  /\ UNCHANGED <<rcOptions, rcCanceled, rcReleased, rcEngine, rcResult, rcCancels, rcRequests>>
  /\ UNCHANGED otherThanRc

\* clientPromise rejects; the catch block runs with `client` undefined, so
\* the finally block releases nothing
RcConnectFails ==
  /\ rcPc = "connecting"
  /\ \E error \in ConnectErrors :
       /\ rcEngine' = Rejected(error)
       /\ rcResult' = Failed(rcCanceled, error)
  /\ rcClient' = ClientRejected
  /\ rcPc' = "settled"
  /\ rcLog' = Append(rcLog, "connectFailed")
  /\ UNCHANGED <<rcOptions, rcCanceled, rcReleased, rcCancels, rcRequests>>
  /\ UNCHANGED otherThanRc

\* client.query(sql) resolves; the try block returns and finally releases
RcQueryResolves ==
  /\ rcPc = "querying"
  /\ \E result \in QueryResults :
       /\ rcEngine' = Resolved(result)
       /\ rcResult' = Completed(result, ResolveRowLimit(rcOptions))
  /\ rcReleased' = rcReleased + 1
  /\ rcPc' = "settled"
  /\ rcLog' = Append(rcLog, "resolved")
  /\ UNCHANGED <<rcOptions, rcCanceled, rcClient, rcCancels, rcRequests>>
  /\ UNCHANGED otherThanRc

\* client.query(sql) rejects; the catch block returns and finally releases.
\* The continuation of the await runs as a microtask of the rejection, so no
\* cancel() call comes between the rejection and the read of the flag.
RcQueryRejects ==
  /\ rcPc = "querying"
  /\ \E error \in QueryErrors :
       /\ rcEngine' = Rejected(error)
       /\ rcResult' = Failed(rcCanceled, error)
  /\ rcReleased' = rcReleased + 1
  /\ rcPc' = "settled"
  /\ rcLog' = Append(rcLog, "rejected")
  /\ UNCHANGED <<rcOptions, rcCanceled, rcClient, rcCancels, rcRequests>>
  /\ UNCHANGED otherThanRc

\* cancel() up to its await: the flag is set
CancelCall ==
  /\ rcPc # "off"
  /\ \E c \in 1..MaxCancels :
       /\ rcCancels[c].pc = "idle"
       /\ c > 1 => rcCancels[c - 1].pc # "idle"
       /\ rcCancels' = [rcCancels EXCEPT ![c] = CancelAt("awaitClient")]
  /\ rcCanceled' = TRUE
  /\ rcLog' = Append(rcLog, "cancel")
  /\ UNCHANGED <<rcOptions, rcPc, rcClient, rcReleased, rcEngine, rcResult, rcRequests>>
  /\ UNCHANGED otherThanRc

\* cancel() after `await clientPromise`: false when the promise rejected or
\* the client has no processID, else pg_cancel_backend(pid) goes out through
\* driver.query
CancelResume ==
  /\ rcClient.state # "pending"
  /\ \E c \in 1..MaxCancels :
       /\ rcCancels[c].pc = "awaitClient"
       /\ IF rcClient.state = "rejected" \/ rcClient.processID = 0
          THEN /\ rcCancels' = [rcCancels EXCEPT ![c] = CancelReturned(FALSE)]
               /\ UNCHANGED rcRequests
          ELSE /\ rcCancels' = [rcCancels EXCEPT ![c] = CancelAt("requesting")]
               /\ rcRequests' = Append(rcRequests,
                    [pid |-> rcClient.processID, inFlight |-> rcPc = "querying"])
  /\ UNCHANGED <<rcOptions, rcPc, rcCanceled, rcClient, rcReleased, rcEngine, rcResult, rcLog>>
  /\ UNCHANGED otherThanRc

\* the pg_cancel_backend query settles: cancel() returns true, or false from
\* its catch
CancelDone ==
  /\ \E c \in 1..MaxCancels, ok \in BOOLEAN :
       /\ rcCancels[c].pc = "requesting"
       /\ rcCancels' = [rcCancels EXCEPT ![c] = CancelReturned(ok)]
  /\ UNCHANGED <<rcOptions, rcPc, rcCanceled, rcClient, rcReleased, rcEngine, rcResult,
                 rcRequests, rcLog>>
  /\ UNCHANGED otherThanRc

(***************************************************************************)
(* OpenTableService and its data editor webview                            *)
(***************************************************************************)
\* the rows of the opened table in ctid order, each known by its locator:
\* one full page and one row more
StoredRows == [n \in 1..(PageSize + 1) |-> Tid(n)]

EditorColumns == <<"id", "name">>

\* TablePageRequest of reload()
PageRequest(pageIndex, sortColumn, sortDirection) ==
  [pageIndex |-> pageIndex, sortColumn |-> sortColumn, sortDirection |-> sortDirection]

\* PostgresTableDataProvider.loadPage: pageSize + 1 rows are read at offset
\* pageIndex * pageSize, in ctid order whatever request.sortBy says
LoadPage(request) ==
  LET offset == request.pageIndex * PageSize
      limit == PageSize + 1
      allRows == IF offset >= Len(StoredRows) THEN <<>>
                 ELSE SubSeq(StoredRows, offset + 1,
                             IF offset + limit <= Len(StoredRows)
                             THEN offset + limit ELSE Len(StoredRows))
      hasNextPage == Len(allRows) > PageSize
  IN  [columns |-> EditorColumns,
       rows |-> IF hasNextPage THEN SubSeq(allRows, 1, PageSize) ELSE allRows,
       pageSize |-> PageSize,
       pageIndex |-> request.pageIndex,
       hasNextPage |-> hasNextPage]

\* DataEditorState; `rows` holds, for each displayed row, the locator of the
\* stored row it shows
EditorState(columns, rows, pageNumber, hasNextPage, sortColumn, sortDirection, loading, error) ==
  [defined |-> TRUE, columns |-> columns, rows |-> rows, pageNumber |-> pageNumber,
   hasNextPage |-> hasNextPage, sortColumn |-> sortColumn, sortDirection |-> sortDirection,
   loading |-> loading, error |-> error]

NoEditorState ==
  [defined |-> FALSE, columns |-> <<>>, rows |-> <<>>, pageNumber |-> 0,
   hasNextPage |-> FALSE, sortColumn |-> "", sortDirection |-> "", loading |-> FALSE,
   error |-> FALSE]

\* loadingState of open()
LoadingState(page) == EditorState(<<>>, <<>>, page + 1, FALSE, "", "", TRUE, FALSE)

\* state of the try block of reload(); currentPage and the sort are read
\* after the await
LoadedState(page, pageNow, sortColumn, sortDirection) ==
  EditorState(page.columns, page.rows, pageNow + 1, page.hasNextPage, sortColumn,
              IF sortColumn # "" THEN sortDirection ELSE "", FALSE, FALSE)

\* state of the catch block of reload()
FailedState(pageNow, sortColumn, sortDirection) ==
  EditorState(<<>>, <<>>, pageNow + 1, FALSE, sortColumn,
              IF sortColumn # "" THEN sortDirection ELSE "", FALSE, TRUE)

NoHtml == [present |-> FALSE, state |-> NoEditorState]
Html(state) == [present |-> TRUE, state |-> state]

\* DataEditorChange of collectChanges; `shown` is the locator of the row the
\* webview displayed at rowIndex when the user made the change (the message
\* itself carries rowIndex only)
EditorChange(kind, rowIndex, shown) == [kind |-> kind, rowIndex |-> rowIndex, shown |-> shown]
EditorInsert == EditorChange("insert", 0, <<>>)

\* messages of the webview
SaveMessage(changes) == [command |-> "save", changes |-> changes, direction |-> "", columnIndex |-> 0]
RefreshMessage == [command |-> "refresh", changes |-> <<>>, direction |-> "", columnIndex |-> 0]
PageMessage(direction) ==
  [command |-> "page", changes |-> <<>>, direction |-> direction, columnIndex |-> 0]
SortMessage(columnIndex) ==
  [command |-> "sort", changes |-> <<>>, direction |-> "", columnIndex |-> columnIndex]

\* activeRowTokens[rowIndex], <<>> when there is none
RowTokenAt(tokens, rowIndex) ==
  IF rowIndex >= 0 /\ rowIndex < Len(tokens) THEN tokens[rowIndex + 1] ELSE <<>>

\* toTableDataChanges
RECURSIVE ToTableDataChanges(_, _)
ToTableDataChanges(changes, tokens) ==
  IF changes = <<>> THEN <<>>
  ELSE LET change == Head(changes)
           rowToken == RowTokenAt(tokens, change.rowIndex)
           rest == ToTableDataChanges(Tail(changes), tokens)
       IN  IF change.kind = "insert"
           THEN <<[kind |-> "insert", rowLocator |-> <<>>, shown |-> <<>>]>> \o rest
           ELSE IF rowToken = <<>> THEN rest
           ELSE <<[kind |-> change.kind, rowLocator |-> rowToken, shown |-> change.shown]>> \o rest

\* seq without its k-th element
Without(seq, k) == SubSeq(seq, 1, k - 1) \o SubSeq(seq, k + 1, Len(seq))

OtsIdle ==
  /\ otsPc = "off"
  /\ otsOpens = 0
  /\ currentPage = 0
  /\ currentSortColumn = ""
  /\ currentSortDirection = "asc"
  /\ activeState = NoEditorState
  /\ activeRowTokens = <<>>
  /\ loadsInFlight = <<>>
  /\ savesInFlight = <<>>
  /\ providerSaves = <<>>
  /\ htmlPending = NoHtml
  /\ webviewState = NoEditorState
  /\ webviewMessages = <<>>
  /\ messagesSent = 0

\* open(item) has run up to the await of its reload(): the handlers are set,
\* the loading state has been shown and the first loadPage is under way
InitOts ==
  /\ otsPc = "open"
  /\ otsOpens = 1
  /\ currentPage = 0
  /\ currentSortColumn = ""
  /\ currentSortDirection = "asc"
  /\ activeState = NoEditorState
  /\ activeRowTokens = <<>>
  /\ loadsInFlight = <<PageRequest(0, "", "asc")>>
  /\ savesInFlight = <<>>
  /\ providerSaves = <<>>
  /\ htmlPending = Html(LoadingState(0))
  /\ webviewState = NoEditorState
  /\ webviewMessages = <<>>
  /\ messagesSent = 0

\* reload() up to its await, with the page and sort given
Reloading(page, sortColumn, sortDirection) ==
  Append(loadsInFlight, PageRequest(page, sortColumn, sortDirection))

\* open(item) called again for a table while the editor is open, up to the
\* await of its reload(): the page and the sort are reset, the panel (the
\* same one, from createOrShow) is given the loading state and a loadPage is
\* started; activeState and activeRowTokens stay as they are
Open ==
  /\ otsOpens < MaxOpens
  /\ otsOpens' = otsOpens + 1
  /\ currentPage' = 0
  /\ currentSortColumn' = ""
  /\ currentSortDirection' = "asc"
  /\ htmlPending' = Html(LoadingState(0))
  /\ loadsInFlight' = Reloading(0, "", "asc")
  /\ UNCHANGED <<otsPc, activeState, activeRowTokens, savesInFlight, providerSaves,
                 webviewState, webviewMessages, messagesSent>>
  /\ UNCHANGED otherThanOts

\* the refresh handler: reload()
HostRefresh ==
  /\ webviewMessages # <<>>
  /\ Head(webviewMessages).command = "refresh"
  /\ webviewMessages' = Tail(webviewMessages)
  /\ loadsInFlight' = Reloading(currentPage, currentSortColumn, currentSortDirection)
  /\ UNCHANGED <<otsPc, otsOpens, currentPage, currentSortColumn, currentSortDirection, activeState,
                 activeRowTokens, savesInFlight, providerSaves, htmlPending, webviewState,
                 messagesSent>>
  /\ UNCHANGED otherThanOts

\* the page handler: changePage(direction) up to the await of its reload()
HostPage ==
  /\ webviewMessages # <<>>
  /\ Head(webviewMessages).command = "page"
  /\ webviewMessages' = Tail(webviewMessages)
  /\ LET direction == Head(webviewMessages).direction
     IN  IF direction = "previous"
         THEN IF currentPage = 0
              THEN UNCHANGED <<currentPage, loadsInFlight>>
              ELSE /\ currentPage' = currentPage - 1
                   /\ loadsInFlight' =
                        Reloading(currentPage - 1, currentSortColumn, currentSortDirection)
         ELSE IF ~(activeState.defined /\ activeState.hasNextPage)
              THEN UNCHANGED <<currentPage, loadsInFlight>>
              ELSE /\ currentPage' = currentPage + 1
                   /\ loadsInFlight' =
                        Reloading(currentPage + 1, currentSortColumn, currentSortDirection)
  /\ UNCHANGED <<otsPc, otsOpens, currentSortColumn, currentSortDirection, activeState,
                 activeRowTokens, savesInFlight, providerSaves, htmlPending, webviewState,
                 messagesSent>>
  /\ UNCHANGED otherThanOts

\* the sort handler: changeSort(columnIndex) up to the await of its reload()
HostSort ==
  /\ webviewMessages # <<>>
  /\ Head(webviewMessages).command = "sort"
  /\ webviewMessages' = Tail(webviewMessages)
  /\ LET columns == IF activeState.defined THEN activeState.columns ELSE <<>>
         columnIndex == Head(webviewMessages).columnIndex
     IN  IF columnIndex >= Len(columns)
         THEN UNCHANGED <<currentPage, currentSortColumn, currentSortDirection, loadsInFlight>>
         ELSE LET columnName == columns[columnIndex + 1]
                  direction == IF currentSortColumn = columnName
                               THEN (IF currentSortDirection = "asc" THEN "desc" ELSE "asc")
                               ELSE "asc"
              IN  /\ currentSortColumn' = columnName
                  /\ currentSortDirection' = direction
                  /\ currentPage' = 0
                  /\ loadsInFlight' = Reloading(0, columnName, direction)
  /\ UNCHANGED <<otsPc, otsOpens, activeState, activeRowTokens, savesInFlight, providerSaves,
                 htmlPending, webviewState, messagesSent>>
  /\ UNCHANGED otherThanOts

\* the save handler: saveChanges(changes) up to the await of
\* tableDataProvider.saveChanges
HostSave ==
  /\ webviewMessages # <<>>
  /\ Head(webviewMessages).command = "save"
  /\ webviewMessages' = Tail(webviewMessages)
  /\ LET changes == Head(webviewMessages).changes
         mappedChanges == ToTableDataChanges(changes, activeRowTokens)
     IN  IF Len(changes) = 0 \/ ~activeState.defined \/ Len(activeState.columns) = 0
         THEN UNCHANGED <<savesInFlight, providerSaves>>
         ELSE /\ savesInFlight' = Append(savesInFlight, mappedChanges)
              /\ providerSaves' = providerSaves \o mappedChanges
  /\ UNCHANGED <<otsPc, otsOpens, currentPage, currentSortColumn, currentSortDirection, activeState,
                 activeRowTokens, loadsInFlight, htmlPending, webviewState, messagesSent>>
  /\ UNCHANGED otherThanOts

\* a loadPage promise resolves: the rest of the try block of reload()
LoadPageReturns ==
  /\ \E k \in 1..Len(loadsInFlight) :
       LET page == LoadPage(loadsInFlight[k])
           state == LoadedState(page, currentPage, currentSortColumn, currentSortDirection)
       IN  /\ loadsInFlight' = Without(loadsInFlight, k)
           /\ activeState' = state
           /\ activeRowTokens' = page.rows
           /\ htmlPending' = Html(state)
  /\ UNCHANGED <<otsPc, otsOpens, currentPage, currentSortColumn, currentSortDirection, savesInFlight,
                 providerSaves, webviewState, webviewMessages, messagesSent>>
  /\ UNCHANGED otherThanOts

\* a loadPage promise rejects: the catch block of reload()
LoadPageFails ==
  /\ \E k \in 1..Len(loadsInFlight) :
       LET state == FailedState(currentPage, currentSortColumn, currentSortDirection)
       IN  /\ loadsInFlight' = Without(loadsInFlight, k)
           /\ activeState' = state
           /\ activeRowTokens' = <<>>
           /\ htmlPending' = Html(state)
  /\ UNCHANGED <<otsPc, otsOpens, currentPage, currentSortColumn, currentSortDirection, savesInFlight,
                 providerSaves, webviewState, webviewMessages, messagesSent>>
  /\ UNCHANGED otherThanOts

\* a provider.saveChanges promise resolves: the summary is shown and reload()
\* runs up to its await
SaveReturns ==
  /\ \E k \in 1..Len(savesInFlight) : savesInFlight' = Without(savesInFlight, k)
  /\ loadsInFlight' = Reloading(currentPage, currentSortColumn, currentSortDirection)
  /\ UNCHANGED <<otsPc, otsOpens, currentPage, currentSortColumn, currentSortDirection, activeState,
                 activeRowTokens, providerSaves, htmlPending, webviewState, webviewMessages,
                 messagesSent>>
  /\ UNCHANGED otherThanOts

\* a provider.saveChanges promise rejects: the catch block shows the message
SaveFails ==
  /\ \E k \in 1..Len(savesInFlight) : savesInFlight' = Without(savesInFlight, k)
  /\ UNCHANGED <<otsPc, otsOpens, currentPage, currentSortColumn, currentSortDirection, activeState,
                 activeRowTokens, loadsInFlight, providerSaves, htmlPending, webviewState,
                 webviewMessages, messagesSent>>
  /\ UNCHANGED otherThanOts

\* the webview loads the html last assigned by showState
WebviewLoads ==
  /\ htmlPending.present
  /\ webviewState' = htmlPending.state
  /\ htmlPending' = NoHtml
  /\ UNCHANGED <<otsPc, otsOpens, currentPage, currentSortColumn, currentSortDirection, activeState,
                 activeRowTokens, loadsInFlight, savesInFlight, providerSaves,
                 webviewMessages, messagesSent>>
  /\ UNCHANGED otherThanOts

\* vscode.postMessage(message)
WebviewPosts(message) ==
  /\ messagesSent < MaxMessages
  /\ webviewMessages' = Append(webviewMessages, message)
  /\ messagesSent' = messagesSent + 1
  /\ UNCHANGED <<otsPc, otsOpens, currentPage, currentSortColumn, currentSortDirection, activeState,
                 activeRowTokens, loadsInFlight, savesInFlight, providerSaves, htmlPending,
                 webviewState>>
  /\ UNCHANGED otherThanOts

\* click on Refresh
UiRefresh ==
  /\ webviewState.defined
  /\ WebviewPosts(RefreshMessage)

\* prevPageDisabled and nextPageDisabled of buildHtml
PrevPageDisabled(state) == state.loading \/ state.pageNumber <= 1
NextPageDisabled(state) == state.loading \/ state.error \/ ~state.hasNextPage

\* click on the previous or next page button, when it is not disabled
UiPage ==
  /\ webviewState.defined
  /\ \E direction \in {"previous", "next"} :
       /\ IF direction = "previous"
          THEN ~PrevPageDisabled(webviewState)
          ELSE ~NextPageDisabled(webviewState)
       /\ WebviewPosts(PageMessage(direction))

\* click on a column's sort button
UiSort ==
  /\ webviewState.defined
  /\ \E columnIndex \in 0..Len(webviewState.columns) - 1 :
       WebviewPosts(SortMessage(columnIndex))

\* the user edits or deletes a displayed row, or fills in a new row, and
\* clicks on Save: collectChanges() of the working rows
UiSave ==
  /\ webviewState.defined
  /\ ~webviewState.loading
  /\ ~webviewState.error
  /\ \E change \in
        {EditorChange(kind, rowIndex, webviewState.rows[rowIndex + 1]) :
           kind \in {"update", "delete"}, rowIndex \in 0..Len(webviewState.rows) - 1}
        \cup {EditorInsert} :
       WebviewPosts(SaveMessage(<<change>>))

(***************************************************************************)
(* PostgresTableDataProvider.loadPage                                      *)
(***************************************************************************)
DEFAULT_PAGE_SIZE == 100
ROW_TOKEN_ALIAS == "__postgres_explorer_row_token__"

\* normalizePageSize without its fallback
NormalizePageSizeUnchecked(limit, fallback) == limit

\* normalizePageSize, on integers
NormalizePageSize(limit, fallback) == IF limit <= 0 THEN fallback ELSE limit

\* the columns of the table the page is read from
PageColumns == <<"id", "status">>

\* the page query of buildOpenTableSql, by its LIMIT and OFFSET
PageQuery(limit, offset) == [kind |-> "page", limit |-> limit, offset |-> offset]
TypesQuery == [kind |-> "types", limit |-> 0, offset |-> 0]
EnumsQuery == [kind |-> "enums", limit |-> 0, offset |-> 0]

\* a row of the query's result: the row token column and the table's columns
StoredRow(n) == [token |-> Tid(n), values |-> <<n, "open">>]

\* rows the engine hands back for ORDER BY ctid LIMIT limit OFFSET offset
RowsAt(stored, limit, offset) ==
  LET last == IF offset + limit <= stored THEN offset + limit ELSE stored
  IN  [k \in 1..(IF last > offset THEN last - offset ELSE 0) |-> StoredRow(offset + k)]

\* values driver.query resolves to for the page query: with the fields of
\* the result, or without a fields array
PageResult(rows, withFields) ==
  [fields |-> IF withFields THEN <<ROW_TOKEN_ALIAS>> \o PageColumns ELSE <<>>,
   rows |-> rows]
NoPageResult == PageResult(<<>>, FALSE)

\* fields.map(name).filter(name !== ROW_TOKEN_ALIAS)
RECURSIVE ColumnsOf(_)
ColumnsOf(fields) ==
  IF fields = <<>> THEN <<>>
  ELSE IF Head(fields) = ROW_TOKEN_ALIAS THEN ColumnsOf(Tail(fields))
  ELSE <<Head(fields)>> \o ColumnsOf(Tail(fields))

\* rows of the column-type query: (column_name, column_type) pairs
TypeRows ==
  {<<>>,
   <<[column_name |-> "id", column_type |-> "integer"]>>,
   <<[column_name |-> "id", column_type |-> "integer"],
     [column_name |-> "status", column_type |-> "order_status"]>>,
   <<[column_name |-> "id", column_type |-> "integer"],
     [column_name |-> "id", column_type |-> "bigint"]>>}

\* rows of the enum-value query: (column_name, enum_value) pairs
EnumRows ==
  {<<>>,
   <<[column_name |-> "status", enum_value |-> "open"]>>,
   <<[column_name |-> "status", enum_value |-> "open"],
     [column_name |-> "status", enum_value |-> "closed"]>>,
   <<[column_name |-> "other", enum_value |-> "x"]>>}

\* typeByColumn.get(columnName) ?? "": the Map keeps the last row of a column
RECURSIVE TypeOf(_, _, _)
TypeOf(columnName, rows, found) ==
  IF rows = <<>> THEN found
  ELSE TypeOf(columnName, Tail(rows),
              IF Head(rows).column_name = columnName THEN Head(rows).column_type ELSE found)

\* enumValuesByColumn.get(columnName) ?? []: the labels in row order
RECURSIVE EnumValuesOf(_, _)
EnumValuesOf(columnName, rows) ==
  IF rows = <<>> THEN <<>>
  ELSE (IF Head(rows).column_name = columnName THEN <<Head(rows).enum_value>> ELSE <<>>)
       \o EnumValuesOf(columnName, Tail(rows))

\* a catch block of loadColumnTypes that hands the column names back
ColumnTypesFailedNamed(columns) == columns

\* what loadColumnTypes resolves to when its query resolved / rejected
ColumnTypesLoaded(columns, rows) == [k \in 1..Len(columns) |-> TypeOf(columns[k], rows, "")]
ColumnTypesFailed(columns) == [k \in 1..Len(columns) |-> ""]

\* what loadColumnEnumValues resolves to when its query resolved / rejected
ColumnEnumValuesLoaded(columns, rows) ==
  [k \in 1..Len(columns) |-> EnumValuesOf(columns[k], rows)]
ColumnEnumValuesFailed(columns) == [k \in 1..Len(columns) |-> <<>>]

\* a metadata loader: not started, waiting for its query, or resolved; with
\* the rows of its query or the fact that it was rejected
LoaderIdle == [state |-> "idle", outcome |-> "none", rows |-> <<>>, value |-> <<>>]
LoaderWaiting == [state |-> "waiting", outcome |-> "none", rows |-> <<>>, value |-> <<>>]
LoaderDone(outcome, rows, value) ==
  [state |-> "done", outcome |-> outcome, rows |-> rows, value |-> value]

\* TablePageResult
PageReturned(columns, rows, pageSize, pageIndex, hasNextPage) ==
  [kind |-> "returned", columns |-> columns, rows |-> rows, pageSize |-> pageSize,
   pageIndex |-> pageIndex, hasNextPage |-> hasNextPage]
PagePending ==
  [kind |-> "pending", columns |-> <<>>, rows |-> <<>>, pageSize |-> 0, pageIndex |-> 0,
   hasNextPage |-> FALSE]
PageThrown ==
  [kind |-> "thrown", columns |-> <<>>, rows |-> <<>>, pageSize |-> 0, pageIndex |-> 0,
   hasNextPage |-> FALSE]

\* the page size loadPage works with
LpPageSize == NormalizePageSize(lpRequest.pageSize, DEFAULT_PAGE_SIZE)

\* visibleRows.map(...): rowLocator and the values of the columns
VisibleRows(allRows, columns, pageSize) ==
  LET visible == IF Len(allRows) > pageSize THEN SubSeq(allRows, 1, pageSize) ELSE allRows
  IN  [k \in 1..Len(visible) |->
         [rowLocator |-> visible[k].token,
          values |-> [c \in 1..Len(columns) |-> visible[k].values[c]]]]

LpIdle ==
  /\ lpRequest = [pageSize |-> 0, pageIndex |-> 0]
  /\ lpStored = 0
  /\ lpPc = "off"
  /\ lpIssued = <<>>
  /\ lpFetched = NoPageResult
  /\ lpTypes = LoaderIdle
  /\ lpEnums = LoaderIdle
  /\ lpResult = PagePending

\* loadPage(request) is about to run on a table of lpStored rows
InitLp ==
  /\ lpRequest \in [pageSize : (0 - 1)..MaxPageSize, pageIndex : 0..MaxPageIndex]
  /\ lpStored \in 0..MaxStored
  /\ lpPc = "called"
  /\ lpIssued = <<>>
  /\ lpFetched = NoPageResult
  /\ lpTypes = LoaderIdle
  /\ lpEnums = LoaderIdle
  /\ lpResult = PagePending

\* loadPage up to `await this.driver.query(sql)`
LpCall ==
  /\ lpPc = "called"
  /\ lpIssued' = <<PageQuery(LpPageSize + 1, lpRequest.pageIndex * LpPageSize)>>
  /\ lpPc' = "querying"
  /\ UNCHANGED <<lpRequest, lpStored, lpFetched, lpTypes, lpEnums, lpResult>>
  /\ UNCHANGED otherThanLp

\* a loadPage that awaits the column types before it loads the enum values
LpPageQueryReturnsThenTypes ==
  /\ lpPc = "querying"
  /\ \E withFields \in BOOLEAN :
       LET result == PageResult(RowsAt(lpStored, lpIssued[1].limit, lpIssued[1].offset),
                                withFields)
       IN  /\ lpFetched' = result
           /\ lpTypes' = LoaderWaiting
           /\ lpEnums' = LoaderDone("none", <<>>, <<>>)
           /\ lpIssued' = lpIssued \o <<TypesQuery>>
  /\ lpPc' = "metadata"
  /\ UNCHANGED <<lpRequest, lpStored, lpResult>>
  /\ UNCHANGED otherThanLp

\* the page query resolves; both metadata loaders are called: each sends its
\* query, or resolves to [] at once when there are no columns
LpPageQueryReturns ==
  /\ lpPc = "querying"
  /\ \E withFields \in BOOLEAN :
       LET result == PageResult(RowsAt(lpStored, lpIssued[1].limit, lpIssued[1].offset),
                                withFields)
           columns == ColumnsOf(result.fields)
       IN  /\ lpFetched' = result
           /\ IF Len(columns) = 0
              THEN /\ lpTypes' = LoaderDone("none", <<>>, <<>>)
                   /\ lpEnums' = LoaderDone("none", <<>>, <<>>)
                   /\ UNCHANGED lpIssued
              ELSE /\ lpTypes' = LoaderWaiting
                   /\ lpEnums' = LoaderWaiting
                   /\ lpIssued' = lpIssued \o <<TypesQuery, EnumsQuery>>
  /\ lpPc' = "metadata"
  /\ UNCHANGED <<lpRequest, lpStored, lpResult>>
  /\ UNCHANGED otherThanLp

\* the page query rejects: loadPage rejects
LpPageQueryFails ==
  /\ lpPc = "querying"
  /\ lpResult' = PageThrown
  /\ lpPc' = "settled"
  /\ UNCHANGED <<lpRequest, lpStored, lpIssued, lpFetched, lpTypes, lpEnums>>
  /\ UNCHANGED otherThanLp

\* the column-type query resolves: the try block of loadColumnTypes
LpTypesReturns ==
  /\ lpTypes.state = "waiting"
  /\ \E rows \in TypeRows :
       lpTypes' = LoaderDone("resolved", rows,
                             ColumnTypesLoaded(ColumnsOf(lpFetched.fields), rows))
  /\ UNCHANGED <<lpRequest, lpStored, lpPc, lpIssued, lpFetched, lpEnums, lpResult>>
  /\ UNCHANGED otherThanLp

\* the column-type query rejects: the catch block of loadColumnTypes
LpTypesFails ==
  /\ lpTypes.state = "waiting"
  /\ lpTypes' = LoaderDone("rejected", <<>>, ColumnTypesFailed(ColumnsOf(lpFetched.fields)))
  /\ UNCHANGED <<lpRequest, lpStored, lpPc, lpIssued, lpFetched, lpEnums, lpResult>>
  /\ UNCHANGED otherThanLp

\* the enum-value query resolves: the try block of loadColumnEnumValues
LpEnumsReturns ==
  /\ lpEnums.state = "waiting"
  /\ \E rows \in EnumRows :
       lpEnums' = LoaderDone("resolved", rows,
                             ColumnEnumValuesLoaded(ColumnsOf(lpFetched.fields), rows))
  /\ UNCHANGED <<lpRequest, lpStored, lpPc, lpIssued, lpFetched, lpTypes, lpResult>>
  /\ UNCHANGED otherThanLp

\* the enum-value query rejects: the catch block of loadColumnEnumValues
LpEnumsFails ==
  /\ lpEnums.state = "waiting"
  /\ lpEnums' = LoaderDone("rejected", <<>>,
                           ColumnEnumValuesFailed(ColumnsOf(lpFetched.fields)))
  /\ UNCHANGED <<lpRequest, lpStored, lpPc, lpIssued, lpFetched, lpTypes, lpResult>>
  /\ UNCHANGED otherThanLp

\* Promise.all resolves: loadPage after the metadata, up to its return
LpReturn ==
  /\ lpPc = "metadata"
  /\ lpTypes.state = "done"
  /\ lpEnums.state = "done"
  /\ LET columns == ColumnsOf(lpFetched.fields)
         allRows == lpFetched.rows
     IN  lpResult' =
           PageReturned(
             [k \in 1..Len(columns) |->
                [name |-> columns[k], dataType |-> lpTypes.value[k],
                 enumValues |-> lpEnums.value[k]]],
             VisibleRows(allRows, columns, LpPageSize),
             LpPageSize,
             lpRequest.pageIndex,
             Len(allRows) > LpPageSize)
  /\ lpPc' = "settled"
  /\ UNCHANGED <<lpRequest, lpStored, lpIssued, lpFetched, lpTypes, lpEnums>>
  /\ UNCHANGED otherThanLp

(***************************************************************************)
(* The statement builders of PostgresTableDataProvider, on their own       *)
(***************************************************************************)
RowTokenAliasText ==
  <<"_", "_", "p", "o", "s", "t", "g", "r", "e", "s", "_", "e", "x", "p", "l", "o", "r", "e",
    "r", "_", "r", "o", "w", "_", "t", "o", "k", "e", "n", "_", "_">>
KwSelect ==
  <<"S", "E", "L", "E", "C", "T", " ", "c", "t", "i", "d", ":", ":", "t", "e", "x", "t", " ",
    "A", "S", " ">>
KwFrom == <<",", " ", "*", " ", "F", "R", "O", "M", " ">>
KwOrderLimit ==
  <<" ", "O", "R", "D", "E", "R", " ", "B", "Y", " ", "c", "t", "i", "d", " ", "L", "I", "M",
    "I", "T", " ">>
KwOffset == <<" ", "O", "F", "F", "S", "E", "T", " ">>
KwEnd == <<";">>

\* buildOpenTableSql
BuildOpenTableSql(schemaName, tableName, limit, offset) ==
  KwSelect \o QuoteIdentifier(RowTokenAliasText) \o KwFrom
    \o QuoteIdentifier(schemaName) \o KwDot \o QuoteIdentifier(tableName)
    \o KwOrderLimit \o Decimal(limit) \o KwOffset \o Decimal(offset) \o KwEnd

\* identifiers: every text of up to MaxIdLen characters of IdAlphabet, and
\* the identifier of the dialect's test
IdUserName == <<"u", "s", "e", "r", "\"", "n", "a", "m", "e">>
IdAlphabet == {"a", "\"", "."}
Identifiers == UNION {[1..n -> IdAlphabet] : n \in 0..MaxIdLen} \cup {IdUserName}

\* a builder's inputs: tables, column lists (<<>> is the empty name), cells
BuilderTables == [schemaName : Identifiers, tableName : {TableUsers, IdUserName}]
BuilderColumnLists ==
  {<<>>, <<ColumnId>>, TableColumns, <<ColumnDisplayName, <<>>, IdUserName>>,
   <<<<"\"">>, <<"\"", "\"">>>>}
CellIndexes == {0 - 1, 0, 1}
Cells ==
  {Cell(columnIndex, filling[1], filling[2]) :
     columnIndex \in CellIndexes,
     filling \in {<<ValueAda, FALSE>>, <<ValueBob, FALSE>>, <<ValueAda, TRUE>>}}
CellLists == UNION {[1..n -> Cells] : n \in 0..MaxCells}
PlainChanges ==
  {UpdateChange(Tid(1), <<Cell(0, ValueAda, FALSE)>>),
   UpdateChange(Tid(1), <<Cell(1, ValueAda, FALSE), Cell(0, ValueBob, FALSE)>>),
   InsertChange(<<Cell(0, ValueAda, FALSE), Cell(1, ValueBob, TRUE)>>),
   DeleteChange(Tid(1))}
CellChanges ==
  {UpdateChange(Tid(1), cells) : cells \in CellLists}
    \cup {InsertChange(cells) : cells \in CellLists}
    \cup {DeleteChange(Tid(1)), DeleteChange(<<>>)}
Pages == {[limit |-> 3, offset |-> 0], [limit |-> 101, offset |-> 200]}
NoPage == [limit |-> 0, offset |-> 0]

BldIdle ==
  /\ bldTable = UsersTable
  /\ bldColumns = <<>>
  /\ bldChange = DeleteChange(<<>>)
  /\ bldPage = NoPage
  /\ bldPc = "off"
  /\ bldStatement = NoStatement

\* a builder is about to be called: with identifiers of every shape and a
\* plain change, or with the users table and cells of every shape
InitBld ==
  /\ \/ /\ bldTable \in BuilderTables
        /\ bldColumns \in BuilderColumnLists
        /\ bldChange \in PlainChanges
     \/ /\ bldTable = UsersTable
        /\ bldColumns \in {TableColumns, <<ColumnId>>}
        /\ bldChange \in CellChanges
  /\ bldPage = NoPage
  /\ bldPc = "ready"
  /\ bldStatement = NoStatement

\* buildUpdateStatement(table, columns, change)
BuildUpdate ==
  /\ bldPc = "ready"
  /\ bldChange.kind = "update"
  /\ bldStatement' = BuildUpdateStatement(bldTable, bldColumns, bldChange)
  /\ bldPc' = "built"
  /\ UNCHANGED <<bldTable, bldColumns, bldChange, bldPage>>
  /\ UNCHANGED otherThanBld

\* buildInsertStatement(table, columns, change)
BuildInsert ==
  /\ bldPc = "ready"
  /\ bldChange.kind = "insert"
  /\ bldStatement' = BuildInsertStatement(bldTable, bldColumns, bldChange)
  /\ bldPc' = "built"
  /\ UNCHANGED <<bldTable, bldColumns, bldChange, bldPage>>
  /\ UNCHANGED otherThanBld

\* buildDeleteStatement(table, change)
BuildDelete ==
  /\ bldPc = "ready"
  /\ bldChange.kind = "delete"
  /\ bldStatement' = BuildDeleteStatement(bldTable, bldChange)
  /\ bldPc' = "built"
  /\ UNCHANGED <<bldTable, bldColumns, bldChange, bldPage>>
  /\ UNCHANGED otherThanBld

\* buildOpenTableSql(schemaName, tableName, limit, offset)
BuildOpenTable ==
  /\ bldPc = "ready"
  /\ \E page \in Pages :
       /\ bldPage' = page
       /\ bldStatement' =
            Statement("SELECT",
              BuildOpenTableSql(bldTable.schemaName, bldTable.tableName,
                                page.limit, page.offset),
              <<>>, <<>>)
  /\ bldPc' = "selected"
  /\ UNCHANGED <<bldTable, bldColumns, bldChange>>
  /\ UNCHANGED otherThanBld

(***************************************************************************)
(* ConnectionManager: connect and disconnect, one call at a time           *)
(***************************************************************************)
NoProfile == "undefined"

\* ids of the profiles of the configuration, and one that is not configured
ProfileIds == {"alpha", "beta"}
UnknownProfileId == "ghost"

\* no call in progress / a call of one kind for one profile at one await
NoCall == [kind |-> "none", profileId |-> NoProfile, at |-> "idle"]
Call(kind, profileId, at) == [kind |-> kind, profileId |-> profileId, at |-> at]

\* how a call settled
NoSettled == [kind |-> "none", profileId |-> NoProfile, outcome |-> "none"]
Settled(call, outcome) == [kind |-> call.kind, profileId |-> call.profileId, outcome |-> outcome]

\* getActiveProfileId()
GetActiveProfileId == activeProfileId

\* getSession() with no argument; 0 stands for undefined
GetSession == IF activeProfileId = NoProfile THEN 0 ELSE sessions[activeProfileId]

CmIdle ==
  /\ activeProfileId = NoProfile
  /\ sessions = [p \in ProfileIds |-> 0]
  /\ cmCall = [kind |-> "off", profileId |-> NoProfile, at |-> "off"]
  /\ cmCalls = 0
  /\ cmLast = NoSettled
  /\ cmCreated = 0
  /\ cmDisposed = {}
  /\ cmFired = <<>>

\* a ConnectionManager right after its constructor
InitCm ==
  /\ activeProfileId = NoProfile
  /\ sessions = [p \in ProfileIds |-> 0]
  /\ cmCall = NoCall
  /\ cmCalls = 0
  /\ cmLast = NoSettled
  /\ cmCreated = 0
  /\ cmDisposed = {}
  /\ cmFired = <<>>

\* disposeSession(profileId) up to its await: existingSession.dispose() is
\* called on the session stored for the profile, if there is one
DisposeCalled(held, profileId) ==
  IF profileId \in ProfileIds /\ held[profileId] # 0 THEN {held[profileId]} ELSE {}

\* where disconnect() waits after it has entered disposeSession(activeId):
\* for the dispose() of a stored session, or, with none stored, for a
\* promise that is resolved
DisconnectAt(held, activeId) == IF held[activeId] # 0 THEN "disconnect" ELSE "clearActive"

\* connect(profileId) up to its first await: an unknown profile throws; with
\* another profile active disconnect() is entered and calls dispose() on
\* that profile's session, else disposeSession(profileId) calls dispose() on
\* the profile's own session
ConnectCall ==
  /\ cmCall = NoCall
  /\ cmCalls < MaxCalls
  /\ cmCalls' = cmCalls + 1
  /\ \E profileId \in ProfileIds \cup {UnknownProfileId} :
       IF profileId \notin ProfileIds
       THEN /\ cmLast' = Settled(Call("connect", profileId, "idle"), "thrown")
            /\ UNCHANGED <<cmCall, cmDisposed>>
       ELSE IF activeProfileId # NoProfile /\ activeProfileId # profileId
       THEN /\ cmCall' = Call("connect", profileId, DisconnectAt(sessions, activeProfileId))
            /\ cmDisposed' = cmDisposed \cup DisposeCalled(sessions, activeProfileId)
            /\ UNCHANGED cmLast
       ELSE /\ cmCall' = Call("connect", profileId, "disposeSession")
            /\ cmDisposed' = cmDisposed \cup DisposeCalled(sessions, profileId)
            /\ UNCHANGED cmLast
  /\ UNCHANGED <<activeProfileId, sessions, cmCreated, cmFired>>
  /\ UNCHANGED otherThanCm

\* disconnect() up to its first await: with an active profile dispose() is
\* called on its session; with none it clears the id, fires and returns
DisconnectCall ==
  /\ cmCall = NoCall
  /\ cmCalls < MaxCalls
  /\ cmCalls' = cmCalls + 1
  /\ IF activeProfileId # NoProfile
     THEN /\ cmCall' = Call("disconnect", NoProfile, DisconnectAt(sessions, activeProfileId))
          /\ cmDisposed' = cmDisposed \cup DisposeCalled(sessions, activeProfileId)
          /\ UNCHANGED <<cmLast, cmFired>>
     ELSE /\ cmLast' = Settled(Call("disconnect", NoProfile, "idle"), "returned")
          /\ cmFired' = Append(cmFired, NoProfile)
          /\ UNCHANGED <<cmCall, cmDisposed>>
  /\ UNCHANGED <<activeProfileId, sessions, cmCreated>>
  /\ UNCHANGED otherThanCm

\* the dispose() called by disposeSession(activeId) inside disconnect()
\* settles: the finally block deletes the session; when dispose() rejected
\* the rejection leaves disconnect(), and connect() when it made the call,
\* before the id is cleared
DisconnectDisposes ==
  /\ cmCall.at = "disconnect"
  /\ sessions' = [sessions EXCEPT ![activeProfileId] = 0]
  /\ \E disposeThrows \in BOOLEAN :
       IF disposeThrows
       THEN cmLast' = Settled(cmCall, "thrown") /\ cmCall' = NoCall
       ELSE cmCall' = [cmCall EXCEPT !.at = "clearActive"] /\ UNCHANGED cmLast
  /\ UNCHANGED <<activeProfileId, cmCalls, cmCreated, cmDisposed, cmFired>>
  /\ UNCHANGED otherThanCm

\* disconnect() resumes after its await: the id is cleared and the event
\* fired; a disconnect() called directly has returned, one called by
\* connect() lets connect() resume in a later microtask
DisconnectClears ==
  /\ cmCall.at = "clearActive"
  /\ activeProfileId' = NoProfile
  /\ cmFired' = Append(cmFired, NoProfile)
  /\ IF cmCall.kind = "disconnect"
     THEN cmLast' = Settled(cmCall, "returned") /\ cmCall' = NoCall
     ELSE cmCall' = [cmCall EXCEPT !.at = "afterDisconnect"] /\ UNCHANGED cmLast
  /\ UNCHANGED <<sessions, cmCalls, cmCreated, cmDisposed>>
  /\ UNCHANGED otherThanCm

\* connect() resumes after await this.disconnect() and enters
\* disposeSession(profileId), which calls dispose() on a session stored for
\* the profile
ConnectResumes ==
  /\ cmCall.at = "afterDisconnect"
  /\ cmCall' = [cmCall EXCEPT !.at = "disposeSession"]
  /\ cmDisposed' = cmDisposed \cup DisposeCalled(sessions, cmCall.profileId)
  /\ UNCHANGED <<activeProfileId, sessions, cmCalls, cmLast, cmCreated, cmFired>>
  /\ UNCHANGED otherThanCm

\* the await of this.disposeSession(profileId) of connect is over: the
\* dispose() of a held session has settled and the finally block has
\* deleted the session
ConnectDisposes ==
  /\ cmCall.at = "disposeSession"
  /\ \E disposeThrows \in BOOLEAN :
       LET held == sessions[cmCall.profileId]
           threw == held # 0 /\ disposeThrows
       IN  /\ sessions' = [sessions EXCEPT ![cmCall.profileId] = 0]
           /\ IF threw
              THEN cmLast' = Settled(cmCall, "thrown") /\ cmCall' = NoCall
              ELSE cmCall' = [cmCall EXCEPT !.at = "createSession"] /\ UNCHANGED cmLast
  /\ UNCHANGED <<activeProfileId, cmCalls, cmCreated, cmDisposed, cmFired>>
  /\ UNCHANGED otherThanCm

\* resolveAdapter, resolvePassword and adapter.createSession: any of them
\* throws, or the session is stored, made active and the event is fired
ConnectCreates ==
  /\ cmCall.at = "createSession"
  /\ \E created \in BOOLEAN :
       IF created
       THEN /\ cmCreated' = cmCreated + 1
            /\ sessions' = [sessions EXCEPT ![cmCall.profileId] = cmCreated + 1]
            /\ activeProfileId' = cmCall.profileId
            /\ cmFired' = Append(cmFired, cmCall.profileId)
            /\ cmLast' = Settled(cmCall, "returned")
       ELSE /\ cmLast' = Settled(cmCall, "thrown")
            /\ UNCHANGED <<cmCreated, sessions, activeProfileId, cmFired>>
  /\ cmCall' = NoCall
  /\ UNCHANGED <<cmCalls, cmDisposed>>
  /\ UNCHANGED otherThanCm

(***************************************************************************)
(* ConnectionManager: connect() calls that overlap                         *)
(***************************************************************************)
\* a connect() call: not made yet, at one of its awaits, or settled.  Every
\* await is a point where the continuations of other calls can run, also
\* when the promise awaited is already resolved:
\*   "disconnect"       dispose() of the session of the profile that was
\*                      active is pending (disposeSession inside disconnect)
\*   "clearActive"      disconnect() is about to resume after its await
\*   "afterDisconnect"  connect() is about to resume after await disconnect()
\*   "disposeSession"   dispose() of the profile's own session is pending
\*   "createSession"    connect() is at or before the await of createSession
OvNotCalled == [profileId |-> NoProfile, at |-> "idle", activeId |-> NoProfile]
OvCall(profileId, at, activeId) == [profileId |-> profileId, at |-> at, activeId |-> activeId]

\* disposeSession(profileId) up to its await: with no session stored it
\* returns and connect goes on towards createSession, else dispose() is
\* called and awaited
OvDisposeSessionAt(held, profileId) ==
  IF held[profileId] = 0 THEN "createSession" ELSE "disposeSession"
OvDisposeCalled(held, profileId) == IF held[profileId] = 0 THEN {} ELSE {held[profileId]}

\* this.sessions.delete(profileId)
OvDelete(held, profileId) == [held EXCEPT ![profileId] = 0]

OvIdle ==
  /\ ovActiveProfileId = NoProfile
  /\ ovSessions = [p \in ProfileIds |-> 0]
  /\ ovCalls = <<>>
  /\ ovCreated = 0
  /\ ovDisposed = {}

\* a ConnectionManager after its constructor, or after a connect() that
\* returned, with no call in progress
InitOv ==
  /\ \E connected \in {NoProfile} \cup ProfileIds :
       /\ ovActiveProfileId = connected
       /\ ovSessions = [p \in ProfileIds |-> IF p = connected THEN 1 ELSE 0]
       /\ ovCreated = IF connected = NoProfile THEN 0 ELSE 1
  /\ ovCalls = [c \in 1..MaxConnects |-> OvNotCalled]
  /\ ovDisposed = {}

\* connect(profileId) up to its first await: an unknown profile throws; with
\* another profile active disconnect() is entered, which reads the active
\* id and enters disposeSession(activeId): dispose() is called on a stored
\* session and awaited, or nothing is stored and disconnect() awaits a
\* promise that is resolved; else disposeSession(profileId) is entered
OvConnectCall(c) ==
  /\ ovCalls[c].at = "idle"
  /\ \E profileId \in ProfileIds \cup {UnknownProfileId} :
       IF profileId \notin ProfileIds
       THEN /\ ovCalls' = [ovCalls EXCEPT ![c] = OvCall(profileId, "thrown", NoProfile)]
            /\ UNCHANGED ovDisposed
       ELSE IF ovActiveProfileId # NoProfile /\ ovActiveProfileId # profileId
       THEN /\ ovCalls' = [ovCalls EXCEPT ![c] =
                             OvCall(profileId,
                                    IF ovSessions[ovActiveProfileId] # 0
                                    THEN "disconnect" ELSE "clearActive",
                                    ovActiveProfileId)]
            /\ ovDisposed' = ovDisposed \cup OvDisposeCalled(ovSessions, ovActiveProfileId)
       ELSE /\ ovCalls' = [ovCalls EXCEPT ![c] =
                             OvCall(profileId, OvDisposeSessionAt(ovSessions, profileId),
                                    NoProfile)]
            /\ ovDisposed' = ovDisposed \cup OvDisposeCalled(ovSessions, profileId)
  /\ UNCHANGED <<ovActiveProfileId, ovSessions, ovCreated>>
  /\ UNCHANGED otherThanOv

\* dispose() of disposeSession(activeId) inside disconnect() settles: the
\* finally block deletes the entry of the profile that was active at the
\* call; a rejection leaves disconnect() and connect()
OvDisconnectDisposes(c) ==
  /\ ovCalls[c].at = "disconnect"
  /\ \E disposeThrows \in BOOLEAN :
       ovCalls' = [ovCalls EXCEPT ![c].at = IF disposeThrows THEN "thrown" ELSE "clearActive"]
  /\ ovSessions' = OvDelete(ovSessions, ovCalls[c].activeId)
  /\ UNCHANGED <<ovActiveProfileId, ovCreated, ovDisposed>>
  /\ UNCHANGED otherThanOv

\* disconnect() resumes after its await: the active id is cleared
OvDisconnectClears(c) ==
  /\ ovCalls[c].at = "clearActive"
  /\ ovActiveProfileId' = NoProfile
  /\ ovCalls' = [ovCalls EXCEPT ![c].at = "afterDisconnect"]
  /\ UNCHANGED <<ovSessions, ovCreated, ovDisposed>>
  /\ UNCHANGED otherThanOv

\* connect() resumes after await this.disconnect() and enters
\* disposeSession(profileId), which calls dispose() on a session stored for
\* the profile
OvConnectResumes(c) ==
  /\ ovCalls[c].at = "afterDisconnect"
  /\ ovCalls' = [ovCalls EXCEPT ![c].at = OvDisposeSessionAt(ovSessions, ovCalls[c].profileId)]
  /\ ovDisposed' = ovDisposed \cup OvDisposeCalled(ovSessions, ovCalls[c].profileId)
  /\ UNCHANGED <<ovActiveProfileId, ovSessions, ovCreated>>
  /\ UNCHANGED otherThanOv

\* dispose() of disposeSession(profileId) settles: the finally block deletes
\* the profile's entry; a rejection leaves connect()
OvConnectDisposes(c) ==
  /\ ovCalls[c].at = "disposeSession"
  /\ \E disposeThrows \in BOOLEAN :
       ovCalls' = [ovCalls EXCEPT ![c].at = IF disposeThrows THEN "thrown" ELSE "createSession"]
  /\ ovSessions' = OvDelete(ovSessions, ovCalls[c].profileId)
  /\ UNCHANGED <<ovActiveProfileId, ovCreated, ovDisposed>>
  /\ UNCHANGED otherThanOv

\* resolveAdapter, resolvePassword and adapter.createSession: any of them
\* throws, or the session is stored and made active
OvConnectCreates(c) ==
  /\ ovCalls[c].at = "createSession"
  /\ \E created \in BOOLEAN :
       IF created
       THEN /\ ovCreated' = ovCreated + 1
            /\ ovSessions' = [ovSessions EXCEPT ![ovCalls[c].profileId] = ovCreated + 1]
            /\ ovActiveProfileId' = ovCalls[c].profileId
            /\ ovCalls' = [ovCalls EXCEPT ![c].at = "returned"]
       ELSE /\ ovCalls' = [ovCalls EXCEPT ![c].at = "thrown"]
            /\ UNCHANGED <<ovCreated, ovSessions, ovActiveProfileId>>
  /\ UNCHANGED ovDisposed
  /\ UNCHANGED otherThanOv

(***************************************************************************)
(* The data editor webview (dataEditorUi.ts)                               *)
(***************************************************************************)
\* EditorRow and WorkingEditorRow; `origin` is not a field of the source: it
\* is the rowIndex the row had in the loaded page, 0 - 1 for a new row
EditorRow(values, nulls) == [values |-> values, nulls |-> nulls]
WorkingRow(values, nulls, isNew, isDeleted, origin) ==
  [values |-> values, nulls |-> nulls, isNew |-> isNew, isDeleted |-> isDeleted,
   origin |-> origin]

\* DataEditorState as far as the script reads it; columnEnumValues holds for
\* each column the values of its enum type, none for any other column
EdLoadedEnums(columns, rows, columnEnumValues) ==
  [columns |-> columns, rows |-> rows, columnEnumValues |-> columnEnumValues,
   loading |-> FALSE, error |-> FALSE]
EdLoaded(columns, rows) == EdLoadedEnums(columns, rows, [c \in 1..Len(columns) |-> <<>>])
EdNotLoaded(loading, error) ==
  [columns |-> <<>>, rows |-> <<>>, columnEnumValues |-> <<>>,
   loading |-> loading, error |-> error]

CellA == <<"a">>
CellNullTyped == <<"N", "u", "l", "l", " ">>

\* the pages a webview is loaded with: no rows, rows of a table without
\* columns, one column and two columns with values and nulls
EdPageEmpty == EdLoaded(<<"id", "name">>, <<>>)
EdPageNoColumns == EdLoaded(<<>>, <<EditorRow(<<>>, <<>>)>>)
EdPageOneColumn ==
  EdLoaded(<<"id">>, <<EditorRow(<<CellA>>, <<FALSE>>), EditorRow(<<<<>>>>, <<TRUE>>)>>)
EdPageTwoColumns ==
  EdLoaded(<<"id", "name">>,
           <<EditorRow(<<CellA, <<>>>>, <<FALSE, TRUE>>),
             EditorRow(<<<<>>, CellA>>, <<TRUE, FALSE>>)>>)
\* pages with an enum type for the last column
EdPageEnumColumn == EdLoadedEnums(<<"id">>, EdPageOneColumn.rows, <<<<CellA>>>>)
EdPageInputAndEnum ==
  EdLoadedEnums(<<"id", "name">>, <<EdPageTwoColumns.rows[1]>>, <<<<>>, <<CellA>>>>)
EdPages ==
  {EdPageEmpty, EdPageNoColumns, EdPageOneColumn, EdPageTwoColumns,
   EdPageEnumColumn, EdPageInputAndEnum,
   EdNotLoaded(TRUE, FALSE), EdNotLoaded(FALSE, TRUE)}

\* enumValuesForColumn(columnIndex)
EnumValuesForColumn(state, columnIndex) ==
  IF columnIndex < Len(state.columnEnumValues)
  THEN state.columnEnumValues[columnIndex + 1] ELSE <<>>

\* the value of the NULL option of a select
ENUM_NULL_VALUE ==
  <<"_", "_", "d", "b", "_", "e", "x", "p", "l", "o", "r", "e", "r", "_",
    "e", "n", "u", "m", "_", "n", "u", "l", "l", "_", "_">>

\* the values of the options of the select of a column: (unset), NULL and
\* the enum values
SelectOptions(enumValues) ==
  {<<>>, ENUM_NULL_VALUE} \cup {enumValues[k] : k \in 1..Len(enumValues)}

\* renderTable gives the cell a select, not an input: a new row's cell in
\* a column with enum values
HasSelect(state, row, columnIndex) ==
  row.isNew /\ Len(EnumValuesForColumn(state, columnIndex)) > 0

\* select.value as renderTable sets it: the NULL option for a null cell,
\* the cell's value when it is an option, else (unset)
SelectValue(enumValues, row, columnIndex) ==
  LET wanted == IF row.nulls[columnIndex + 1] THEN ENUM_NULL_VALUE
                ELSE row.values[columnIndex + 1]
  IN  IF wanted \in SelectOptions(enumValues) THEN wanted ELSE <<>>

\* what the user types into a cell
RawInputs == {<<>>, CellA, CellNullTyped}

\* String.prototype.toLowerCase, for the letters typed here
ToLowerChar(char) ==
  IF char = "N" THEN "n" ELSE IF char = "U" THEN "u" ELSE IF char = "L" THEN "l" ELSE char
ToLowerCase(text) == [k \in 1..Len(text) |-> ToLowerChar(text[k])]

\* computeCellValue
ComputeCellValue(raw, baselineNull) ==
  LET trimmed == Trim(raw)
  IN  [value |-> raw,
       isNull |-> ToLowerCase(trimmed) = <<"n", "u", "l", "l">>
                    \/ (trimmed = <<>> /\ baselineNull)]

\* createEmptyRow
CreateEmptyRow(columns) ==
  WorkingRow([c \in 1..Len(columns) |-> <<>>], [c \in 1..Len(columns) |-> FALSE],
             TRUE, FALSE, 0 - 1)

\* originalRows.map(...) of the start of the script and of resetWorkingRows
ResetWorkingRows(originals) ==
  [k \in 1..Len(originals) |->
     WorkingRow(originals[k].values, originals[k].nulls, FALSE, FALSE, k - 1)]

\* the cell differs from the loaded one
CellChanged(row, originalRow, columnIndex) ==
  LET value == row.values[columnIndex + 1]
      isNull == row.nulls[columnIndex + 1]
      originalValue == originalRow.values[columnIndex + 1]
      originalNull == originalRow.nulls[columnIndex + 1]
  IN  isNull # originalNull \/ (~isNull /\ value # originalValue)

\* the cell of a new row holds something
CellFilled(row, columnIndex) ==
  row.nulls[columnIndex + 1] \/ row.values[columnIndex + 1] # <<>>

\* isCellDirty(rowIndex, columnIndex)
IsCellDirty(rows, originals, rowIndex, columnIndex) ==
  IF rowIndex >= Len(rows) THEN FALSE
  ELSE LET row == rows[rowIndex + 1]
       IN  IF row.isDeleted THEN FALSE
           ELSE IF row.isNew THEN CellFilled(row, columnIndex)
           ELSE IF rowIndex >= Len(originals) THEN CellFilled(row, columnIndex)
           ELSE CellChanged(row, originals[rowIndex + 1], columnIndex)

\* the controls renderTable gives the class "dirty", as <<rowIndex, columnIndex>>
RenderedDirty(rows, originals, columns) ==
  {control \in (0..(Len(rows) - 1)) \X (0..(Len(columns) - 1)) :
     IsCellDirty(rows, originals, control[1], control[2])}

\* hasChanges of an updateDirtyState that counts dirty controls only
HasChangesDirtyOnly(dirty, rows) == dirty # {}

\* hasChanges of updateDirtyState
HasChanges(dirty, rows) ==
  dirty # {} \/ \E k \in 1..Len(rows) : rows[k].isDeleted /\ ~rows[k].isNew

\* the cells of a row that pass the test, as DataEditorCellUpdate, in
\* column order
RECURSIVE CellsFrom(_, _, _, _)
CellsFrom(row, originalRow, columns, columnIndex) ==
  IF columnIndex >= Len(columns) THEN <<>>
  ELSE LET rest == CellsFrom(row, originalRow, columns, columnIndex + 1)
           taken == IF row.isNew THEN CellFilled(row, columnIndex)
                    ELSE CellChanged(row, originalRow, columnIndex)
       IN  IF taken
           THEN <<Cell(columnIndex, row.values[columnIndex + 1], row.nulls[columnIndex + 1])>>
                  \o rest
           ELSE rest

\* DataEditorChange; an insert has no rowIndex
EdChange(kind, rowIndex, cells) == [kind |-> kind, rowIndex |-> rowIndex, cells |-> cells]

\* collectChanges, from row rowIndex on
RECURSIVE CollectChangesFrom(_, _, _, _)
CollectChangesFrom(rows, originals, columns, rowIndex) ==
  IF rowIndex >= Len(rows) THEN <<>>
  ELSE LET row == rows[rowIndex + 1]
           rest == CollectChangesFrom(rows, originals, columns, rowIndex + 1)
       IN  IF row.isDeleted
           THEN IF ~row.isNew THEN <<EdChange("delete", rowIndex, <<>>)>> \o rest ELSE rest
           ELSE IF row.isNew
           THEN LET values == CellsFrom(row, row, columns, 0)
                IN  IF Len(values) > 0 THEN <<EdChange("insert", 0 - 1, values)>> \o rest
                    ELSE rest
           ELSE IF rowIndex >= Len(originals) THEN rest
           ELSE LET updates == CellsFrom(row, originals[rowIndex + 1], columns, 0)
                IN  IF Len(updates) > 0 THEN <<EdChange("update", rowIndex, updates)>> \o rest
                    ELSE rest

\* collectChanges()
CollectChanges(rows, originals, columns) == CollectChangesFrom(rows, originals, columns, 0)

\* an add-row handler that puts the new row first
WithNewRowFirst(rows, columns) == <<CreateEmptyRow(columns)>> \o rows

\* workingRows.push(createEmptyRow())
WithNewRow(rows, columns) == Append(rows, CreateEmptyRow(columns))

\* workingRows.splice(rowIndex, 1)
Spliced(rows, rowIndex) == SubSeq(rows, 1, rowIndex) \o SubSeq(rows, rowIndex + 2, Len(rows))

NoSave == [posted |-> FALSE, changes |-> <<>>]
SavePosted(changes) == [posted |-> TRUE, changes |-> changes]

EdIdle ==
  /\ edState = EdNotLoaded(FALSE, FALSE)
  /\ originalRows = <<>>
  /\ workingRows = <<>>
  /\ dirtyControls = {}
  /\ saveDisabled = TRUE
  /\ revertDisabled = TRUE
  /\ edPosted = NoSave

\* the script has run on the html of a state: Save and Revert are disabled
\* in the html, the rows are copied, and the table is rendered unless the
\* state is loading or an error, which finds no cell dirty
InitEd ==
  /\ edState \in EdPages
  /\ originalRows = edState.rows
  /\ workingRows = ResetWorkingRows(edState.rows)
  /\ dirtyControls = {}
  /\ saveDisabled = TRUE
  /\ revertDisabled = TRUE
  /\ edPosted = NoSave

\* the table can be acted on: it was rendered and no save has replaced it
EdRendered == ~edState.loading /\ ~edState.error /\ ~edPosted.posted

\* renderTable(): every control gets its class from isCellDirty, then
\* updateDirtyState()
RenderTable(rows) ==
  LET dirty == RenderedDirty(rows, originalRows, edState.columns)
  IN  /\ workingRows' = rows
      /\ dirtyControls' = dirty
      /\ saveDisabled' = ~HasChanges(dirty, rows)
      /\ revertDisabled' = ~HasChanges(dirty, rows)

\* the input handler of the cell at rowIndex, columnIndex
EdInput(rowIndex, columnIndex) ==
  /\ EdRendered
  /\ rowIndex < Len(workingRows)
  /\ columnIndex < Len(edState.columns)
  /\ ~workingRows[rowIndex + 1].isDeleted
  /\ ~HasSelect(edState, workingRows[rowIndex + 1], columnIndex)
  /\ \E raw \in RawInputs :
       LET row == workingRows[rowIndex + 1]
           baselineNull == IF row.isNew THEN FALSE
                           ELSE IF rowIndex >= Len(originalRows) THEN FALSE
                           ELSE originalRows[rowIndex + 1].nulls[columnIndex + 1]
           next == ComputeCellValue(raw, baselineNull)
           rows == [workingRows EXCEPT ![rowIndex + 1].values[columnIndex + 1] = next.value,
                                       ![rowIndex + 1].nulls[columnIndex + 1] = next.isNull]
           control == <<rowIndex, columnIndex>>
           dirty == IF IsCellDirty(rows, originalRows, rowIndex, columnIndex)
                    THEN dirtyControls \cup {control} ELSE dirtyControls \ {control}
       IN  /\ workingRows' = rows
           /\ dirtyControls' = dirty
           /\ saveDisabled' = ~HasChanges(dirty, rows)
           /\ revertDisabled' = ~HasChanges(dirty, rows)
  /\ UNCHANGED <<edState, originalRows, edPosted>>
  /\ UNCHANGED otherThanEd

\* the change handler of the select at rowIndex, columnIndex: the user
\* chooses another option
EdSelect(rowIndex, columnIndex) ==
  /\ EdRendered
  /\ rowIndex < Len(workingRows)
  /\ columnIndex < Len(edState.columns)
  /\ ~workingRows[rowIndex + 1].isDeleted
  /\ HasSelect(edState, workingRows[rowIndex + 1], columnIndex)
  /\ LET enumValues == EnumValuesForColumn(edState, columnIndex)
     IN  \E nextValue \in SelectOptions(enumValues) :
           LET nextIsNull == nextValue = ENUM_NULL_VALUE
               rows == [workingRows EXCEPT
                          ![rowIndex + 1].values[columnIndex + 1] =
                             IF nextIsNull THEN <<>> ELSE nextValue,
                          ![rowIndex + 1].nulls[columnIndex + 1] = nextIsNull]
               control == <<rowIndex, columnIndex>>
               dirty == IF IsCellDirty(rows, originalRows, rowIndex, columnIndex)
                        THEN dirtyControls \cup {control} ELSE dirtyControls \ {control}
           IN  /\ nextValue # SelectValue(enumValues, workingRows[rowIndex + 1], columnIndex)
               /\ workingRows' = rows
               /\ dirtyControls' = dirty
               /\ saveDisabled' = ~HasChanges(dirty, rows)
               /\ revertDisabled' = ~HasChanges(dirty, rows)
  /\ UNCHANGED <<edState, originalRows, edPosted>>
  /\ UNCHANGED otherThanEd

\* the Delete button of a loaded row; with unsaved edits the user is asked
EdDelete(rowIndex) ==
  /\ EdRendered
  /\ rowIndex < Len(workingRows)
  /\ ~workingRows[rowIndex + 1].isNew
  /\ ~workingRows[rowIndex + 1].isDeleted
  /\ \E confirmed \in BOOLEAN :
       LET hasUnsavedEdits ==
             \E columnIndex \in 0..(Len(edState.columns) - 1) :
               IsCellDirty(workingRows, originalRows, rowIndex, columnIndex)
       IN  IF hasUnsavedEdits /\ ~confirmed
           THEN UNCHANGED <<workingRows, dirtyControls, saveDisabled, revertDisabled>>
           ELSE RenderTable([workingRows EXCEPT ![rowIndex + 1].isDeleted = TRUE])
  /\ UNCHANGED <<edState, originalRows, edPosted>>
  /\ UNCHANGED otherThanEd

\* the Undo button of a deleted row
EdUndo(rowIndex) ==
  /\ EdRendered
  /\ rowIndex < Len(workingRows)
  /\ ~workingRows[rowIndex + 1].isNew
  /\ workingRows[rowIndex + 1].isDeleted
  /\ RenderTable([workingRows EXCEPT ![rowIndex + 1].isDeleted = FALSE])
  /\ UNCHANGED <<edState, originalRows, edPosted>>
  /\ UNCHANGED otherThanEd

\* the Remove button of a new row
EdRemove(rowIndex) ==
  /\ EdRendered
  /\ rowIndex < Len(workingRows)
  /\ workingRows[rowIndex + 1].isNew
  /\ RenderTable(Spliced(workingRows, rowIndex))
  /\ UNCHANGED <<edState, originalRows, edPosted>>
  /\ UNCHANGED otherThanEd

\* the Add row button, which the html disables for a table without columns
EdAddRow ==
  /\ EdRendered
  /\ Len(edState.columns) > 0
  /\ Cardinality({k \in 1..Len(workingRows) : workingRows[k].isNew}) < MaxNewRows
  /\ RenderTable(WithNewRow(workingRows, edState.columns))
  /\ UNCHANGED <<edState, originalRows, edPosted>>
  /\ UNCHANGED otherThanEd

\* the Revert button
EdRevert ==
  /\ EdRendered
  /\ ~revertDisabled
  /\ RenderTable(ResetWorkingRows(originalRows))
  /\ UNCHANGED <<edState, originalRows, edPosted>>
  /\ UNCHANGED otherThanEd

\* the Save button: collectChanges() is posted. The click changes nothing in
\* the webview and the host answers with a new page, so the webview is
\* followed up to its first save message.
EdSave ==
  /\ EdRendered
  /\ ~saveDisabled
  /\ edPosted' = SavePosted(CollectChanges(workingRows, originalRows, edState.columns))
  /\ UNCHANGED <<edState, originalRows, workingRows, dirtyControls, saveDisabled,
                 revertDisabled>>
  /\ UNCHANGED otherThanEd

(***************************************************************************)
(* Specifications: one per component, the other components switched off    *)
(***************************************************************************)
NextSql == ScanDocument \/ ListStatements \/ RunAtSelection

InitSqlOnly == InitSql /\ SaveIdle /\ RcIdle /\ OtsIdle /\ LpIdle /\ BldIdle /\ CmIdle /\ OvIdle /\ EdIdle

SpecSql == InitSqlOnly /\ [][NextSql]_vars

NextSave == SaveCall \/ SaveConnect \/ SaveBegin \/ SaveChange \/ SaveCommit \/ SaveCatch

InitSaveOnly == InitSave /\ InitSqlOff /\ RcIdle /\ OtsIdle /\ LpIdle /\ BldIdle /\ CmIdle /\ OvIdle /\ EdIdle

SpecSave == InitSaveOnly /\ [][NextSave]_vars

NextRc ==
  \/ RcConnected
  \/ RcConnectFails
  \/ RcQueryResolves
  \/ RcQueryRejects
  \/ CancelCall
  \/ CancelResume
  \/ CancelDone

InitRcOnly == InitRc /\ InitSqlOff /\ SaveIdle /\ OtsIdle /\ LpIdle /\ BldIdle /\ CmIdle /\ OvIdle /\ EdIdle

SpecRc == InitRcOnly /\ [][NextRc]_vars

NextOts ==
  \/ Open
  \/ HostRefresh
  \/ HostPage
  \/ HostSort
  \/ HostSave
  \/ LoadPageReturns
  \/ LoadPageFails
  \/ SaveReturns
  \/ SaveFails
  \/ WebviewLoads
  \/ UiRefresh
  \/ UiPage
  \/ UiSort
  \/ UiSave

InitOtsOnly == InitOts /\ InitSqlOff /\ SaveIdle /\ RcIdle /\ LpIdle /\ BldIdle /\ CmIdle /\ OvIdle /\ EdIdle

SpecOts == InitOtsOnly /\ [][NextOts]_vars

NextLp ==
  \/ LpCall
  \/ LpPageQueryReturns
  \/ LpPageQueryFails
  \/ LpTypesReturns
  \/ LpTypesFails
  \/ LpEnumsReturns
  \/ LpEnumsFails
  \/ LpReturn

InitLpOnly == InitLp /\ InitSqlOff /\ SaveIdle /\ RcIdle /\ OtsIdle /\ BldIdle /\ CmIdle /\ OvIdle /\ EdIdle

SpecLp == InitLpOnly /\ [][NextLp]_vars

NextBld ==
  \/ BuildUpdate
  \/ BuildInsert
  \/ BuildDelete
  \/ BuildOpenTable

InitBldOnly == InitBld /\ InitSqlOff /\ SaveIdle /\ RcIdle /\ OtsIdle /\ LpIdle /\ CmIdle /\ OvIdle /\ EdIdle

SpecBld == InitBldOnly /\ [][NextBld]_vars

NextCm ==
  \/ ConnectCall
  \/ DisconnectCall
  \/ DisconnectDisposes
  \/ DisconnectClears
  \/ ConnectResumes
  \/ ConnectDisposes
  \/ ConnectCreates

InitCmOnly == InitCm /\ InitSqlOff /\ SaveIdle /\ RcIdle /\ OtsIdle /\ LpIdle /\ BldIdle /\ OvIdle /\ EdIdle

SpecCm == InitCmOnly /\ [][NextCm]_vars

NextOv ==
  \/ \E c \in 1..MaxConnects : OvConnectCall(c)
  \/ \E c \in 1..MaxConnects : OvDisconnectDisposes(c)
  \/ \E c \in 1..MaxConnects : OvDisconnectClears(c)
  \/ \E c \in 1..MaxConnects : OvConnectResumes(c)
  \/ \E c \in 1..MaxConnects : OvConnectDisposes(c)
  \/ \E c \in 1..MaxConnects : OvConnectCreates(c)

InitOvOnly == InitOv /\ InitSqlOff /\ SaveIdle /\ RcIdle /\ OtsIdle /\ LpIdle /\ BldIdle /\ CmIdle /\ EdIdle

SpecOv == InitOvOnly /\ [][NextOv]_vars

\* the rows and the columns of the rendered table, as 0-based indices
EdRowIndexes == 0..(Len(workingRows) - 1)
EdColumnIndexes == 0..(Len(edState.columns) - 1)

NextEd ==
  \/ \E rowIndex \in EdRowIndexes, columnIndex \in EdColumnIndexes : EdInput(rowIndex, columnIndex)
  \/ \E rowIndex \in EdRowIndexes, columnIndex \in EdColumnIndexes : EdSelect(rowIndex, columnIndex)
  \/ \E rowIndex \in EdRowIndexes : EdDelete(rowIndex)
  \/ \E rowIndex \in EdRowIndexes : EdUndo(rowIndex)
  \/ \E rowIndex \in EdRowIndexes : EdRemove(rowIndex)
  \/ EdAddRow
  \/ EdRevert
  \/ EdSave

InitEdOnly ==
  InitEd /\ InitSqlOff /\ SaveIdle /\ RcIdle /\ OtsIdle /\ LpIdle /\ BldIdle /\ CmIdle /\ OvIdle

SpecEd == InitEdOnly /\ [][NextEd]_vars

(***************************************************************************)
(* Properties of the statement scanner and resolver (SpecSql)              *)
(***************************************************************************)
TextSelectQuoted ==
  <<"S", "E", "L", "E", "C", "T", " ", "'", ";", "'", " ", "A", "S", " ", "x">>
TextSelectCommented ==
  <<"S", "E", "L", "E", "C", "T", " ", "1", " ", "/", "*", " ", ";", " ", "*", "/">>
TextDoDollar ==
  <<"D", "O", " ", "$", "$">>
TextSelect1 ==
  <<"S", "E", "L", "E", "C", "T", " ", "1">>
TextSelect2 ==
  <<"S", "E", "L", "E", "C", "T", " ", "2">>
TextSelect3 ==
  <<"S", "E", "L", "E", "C", "T", " ", "3">>

\* offsets of the ";" the scanner met in its normal state
TopLevelSemicolons(text) ==
  {o \in 0..Len(text) - 1 :
     text[o + 1] = ";" /\ [offset |-> o, kind |-> "normal"] \in ScanRun(text).visited}

\* the nearest top-level ";" before offset c, or -1
BoundaryBefore(text, c) ==
  LET before == {o \in TopLevelSemicolons(text) : o < c}
  IN  IF before = {} THEN 0 - 1 ELSE CHOOSE o \in before : \A q \in before : q <= o

\* the nearest top-level ";" at or after offset c, or the end of the text
BoundaryFrom(text, c) ==
  LET after == {o \in TopLevelSemicolons(text) : o >= c}
  IN  IF after = {} THEN Len(text) ELSE CHOOSE o \in after : \A q \in after : o <= q

\* the first offset at or after c that holds no white space
RECURSIVE SkipWhitespace(_, _)
SkipWhitespace(text, c) ==
  IF c < Len(text) /\ IsWhitespace(text[c + 1]) THEN SkipWhitespace(text, c + 1) ELSE c

CursorResolved == sqlPc = "resolved" /\ selStart = selEnd

\* C1: scanSqlSegments ends a segment before the end of the text only at an
\* offset that holds ";" and that the scanner visited in its normal state
\* (never inside a quoted string, quoted identifier, comment or dollar-quoted
\* block); every statement of getSqlStatements ends at such a ";" or at the
\* end of the text, and the suite's document with quoted, commented and
\* dollar-quoted semicolons yields exactly its four statements.
C1_BoundaryOnlyAtTopLevelSemicolon ==
  /\ sqlPc = "scanned" =>
       /\ Len(segments) >= 1
       /\ segments[Len(segments)].rawEnd = Len(docText)
       /\ \A k \in 1..Len(segments) - 1 :
            /\ segments[k].rawEnd < Len(docText)
            /\ docText[segments[k].rawEnd + 1] = ";"
            /\ [offset |-> segments[k].rawEnd, kind |-> "normal"] \in visited
            /\ \A kind \in {"singleQuote", "doubleQuote", "lineComment",
                            "blockComment", "dollarQuote"} :
                 [offset |-> segments[k].rawEnd, kind |-> kind] \notin visited
  /\ sqlPc = "listed" =>
       /\ \A k \in 1..Len(statements) :
            LET ending == SkipWhitespace(docText, statements[k].to)
            IN  ending = Len(docText) \/ ending \in TopLevelSemicolons(docText)
       /\ docText = DocQuotedSemicolons =>
            /\ Len(statements) = 4
            /\ statements[1].text = TextSelectQuoted
            /\ statements[2].text = TextSelectCommented
            /\ StartsWith(statements[3].text, TextDoDollar, 0)
            /\ statements[4].text = TextSelect3

\* C1 witness: a document was scanned in which a ";" inside a single-quoted
\* string was passed over and a later top-level ";" ended the segment
C1_Witness ==
  /\ sqlPc = "scanned"
  /\ Len(segments) = 2
  /\ \E o \in 0..Len(docText) - 1 :
       /\ docText[o + 1] = ";"
       /\ [offset |-> o, kind |-> "singleQuote"] \in visited
       /\ o < segments[1].rawEnd

\* C4: with an empty selection, a cursor at the offset of a top-level ";"
\* resolves to the text between the previous top-level ";" and this one, and
\* a cursor right after a top-level ";" resolves to the text between it and
\* the next top-level ";" (or the end), trimmed, null when empty; in
\* "SELECT 1;SELECT 2;" offset 8 gives "SELECT 1" and offset 9 "SELECT 2".
C4_CursorAtSeparator ==
  CursorResolved =>
    /\ selEnd \in TopLevelSemicolons(docText) =>
         sqlToRun = NullIfEmpty(Trim(Slice(docText, BoundaryBefore(docText, selEnd) + 1, selEnd)))
    /\ selEnd - 1 \in TopLevelSemicolons(docText) =>
         sqlToRun = NullIfEmpty(Trim(Slice(docText, selEnd, BoundaryFrom(docText, selEnd))))
    /\ docText = DocTwoTerminated /\ selEnd = 8 => sqlToRun = Some(TextSelect1)
    /\ docText = DocTwoTerminated /\ selEnd = 9 => sqlToRun = Some(TextSelect2)

\* C4 witness: the cursor on the first ";" of "SELECT 1;SELECT 2;"
C4_Witness ==
  /\ CursorResolved
  /\ docText = DocTwoTerminated
  /\ selEnd = 8
  /\ selEnd \in TopLevelSemicolons(docText)
  /\ sqlToRun = Some(TextSelect1)

\* the cursor is right after a top-level ";" and what follows, up to the
\* next top-level ";" or the end, trims to nothing
AfterSeparatorNothingFollows ==
  /\ CursorResolved
  /\ selEnd - 1 \in TopLevelSemicolons(docText)
  /\ Trim(Slice(docText, selEnd, BoundaryFrom(docText, selEnd))) = <<>>

\* the statement the ";" before the cursor terminates
PrecedingStatement ==
  Trim(Slice(docText, BoundaryBefore(docText, selEnd - 1) + 1, selEnd - 1))

\* C5 as stated: when the cursor is right after a separator and the segment
\* that follows trims to empty, getSqlToRun returns the preceding statement.
C5_FallsBackToPreceding ==
  AfterSeparatorNothingFollows => sqlToRun = NullIfEmpty(PrecedingStatement)

\* C5 amended: when the cursor is right after a separator and the segment
\* that follows trims to empty, getSqlToRun returns null (no statement); it
\* does not fall back to the preceding statement.
C5_NothingAfterSeparatorIsNull ==
  AfterSeparatorNothingFollows => sqlToRun = Null

\* C5 witness: the cursor at the end of "SELECT 1;"
C5_Witness ==
  /\ AfterSeparatorNothingFollows
  /\ docText = DocOneTerminated
  /\ selEnd = Len(DocOneTerminated)
  /\ PrecedingStatement = TextSelect1
  /\ sqlToRun = Null

\* offset at which segment k of a scan starts
SegmentStart(segs, k) == IF k = 1 THEN 0 ELSE segs[k - 1].rawEnd + 1

\* offsets of segment k that hold content: characters read in the normal
\* state that are neither white space nor the opener of a comment
ContentOffsets(text, run, k) ==
  {p \in SegmentStart(run.segments, k)..(run.segments[k].rawEnd - 1) :
     /\ [offset |-> p, kind |-> "normal"] \in run.visited
     /\ ~IsWhitespace(CharAt(text, p))
     /\ ~(CharAt(text, p) = "-" /\ CharAt(text, p + 1) = "-")
     /\ ~(CharAt(text, p) = "/" /\ CharAt(text, p + 1) = "*")}

\* the segments of a scan that have content, as their indices
SegmentsWithContent(text, run) ==
  {k \in 1..Len(run.segments) : ContentOffsets(text, run, k) # {}}

\* C15 as stated: getSqlStatements lists one statement per segment with
\* content, in order, and none for a segment of white space and comments
\* only; the last segment needs no ';'; every statement has text, starts at
\* the first content character of its segment and ends within the segment.
C15_OneStatementPerSegmentWithContent ==
  sqlPc = "listed" =>
    LET run == ScanRun(docText)
        due == SegmentsWithContent(docText, run)
    IN  /\ Len(statements) = Cardinality(due)
        /\ \A j \in 1..Len(statements) :
             LET k == CHOOSE d \in due : Cardinality({e \in due : e < d}) = j - 1
                 first == CHOOSE p \in ContentOffsets(docText, run, k) :
                            \A q \in ContentOffsets(docText, run, k) : p <= q
             IN  /\ statements[j].from = first
                 /\ Len(statements[j].text) > 0
                 /\ statements[j].text[1] = CharAt(docText, first)
                 /\ statements[j].to <= run.segments[k].rawEnd
                 /\ statements[j].to > first
                 /\ statements[j].text = TrimEnd(Slice(docText, first, statements[j].to))
                 /\ \A p \in statements[j].to..(run.segments[k].rawEnd - 1) :
                      IsWhitespace(CharAt(docText, p))

\* the segments with content whose text from the first content character on
\* is more than what trimEnd removes
SegmentsWithText(text, run) ==
  {k \in SegmentsWithContent(text, run) :
     \E p \in ContentOffsets(text, run, k) :
       \E q \in p..(run.segments[k].rawEnd - 1) : ~IsTrimSpace(CharAt(text, q))}

\* C15: getSqlStatements lists one statement per segment with content (a
\* character read in the normal state that is no space, tab, line feed,
\* carriage return or form feed and opens no comment) whose text from the
\* first content character on is not all white space of trimEnd, in order,
\* and none for any other segment; the last segment needs no ';'; every
\* statement has text, starts at the first content character of its segment
\* and ends within the segment.
C15_OneStatementPerSegmentWithText ==
  sqlPc = "listed" =>
    LET run == ScanRun(docText)
        due == SegmentsWithText(docText, run)
    IN  /\ Len(statements) = Cardinality(due)
        /\ \A j \in 1..Len(statements) :
             LET k == CHOOSE d \in due : Cardinality({e \in due : e < d}) = j - 1
                 first == CHOOSE p \in ContentOffsets(docText, run, k) :
                            \A q \in ContentOffsets(docText, run, k) : p <= q
             IN  /\ statements[j].from = first
                 /\ Len(statements[j].text) > 0
                 /\ statements[j].text[1] = CharAt(docText, first)
                 /\ statements[j].to <= run.segments[k].rawEnd
                 /\ statements[j].to > first
                 /\ statements[j].text = TrimEnd(Slice(docText, first, statements[j].to))
                 /\ \A p \in statements[j].to..(run.segments[k].rawEnd - 1) :
                      IsWhitespace(CharAt(docText, p))

\* C15 witness: a document of four segments, the 2nd blank and the 3rd a
\* comment, lists two statements; the last has no ';' and starts after the
\* block comment that opens its segment
C15_Witness ==
  /\ sqlPc = "listed"
  /\ docText = DocSkippedSegments
  /\ Len(ScanSqlSegments(docText)) = 4
  /\ Len(statements) = 2
  /\ statements[1].text = <<"S", "E", "L", "E", "C", "T", " ", "1">>
  /\ statements[2].text = <<"S", "E", "L", "E", "C", "T", " ", "2">>
  /\ statements[2].to = Len(docText) - 1

\* C21 as stated: the statements are in source order, their ranges do not
\* overlap, the text of each is exactly the source text of its range, and
\* listing the unchanged text again gives the same list.
C21_StatementTextIsRangeText ==
  sqlPc = "listed" =>
    /\ \A j \in 1..Len(statements) :
         /\ 0 <= statements[j].from
         /\ statements[j].from < statements[j].to
         /\ statements[j].to <= Len(docText)
         /\ statements[j].text = Slice(docText, statements[j].from, statements[j].to)
    /\ \A j \in 1..(Len(statements) - 1) : statements[j].to <= statements[j + 1].from
    /\ GetSqlStatements(docText) = statements

\* C21: the statements are in source order, their ranges do not overlap and
\* end at a character that is no space, tab, line feed, carriage return or
\* form feed; the text of each is the source text of its range without the
\* white space trimEnd removes from its end, so a non-empty prefix of it;
\* listing the unchanged text again gives the same list.
C21_StatementTextIsTrimmedRangeText ==
  sqlPc = "listed" =>
    /\ \A j \in 1..Len(statements) :
         LET rangeText == Slice(docText, statements[j].from, statements[j].to)
         IN  /\ 0 <= statements[j].from
             /\ statements[j].from < statements[j].to
             /\ statements[j].to <= Len(docText)
             /\ ~IsWhitespace(CharAt(docText, statements[j].to - 1))
             /\ statements[j].text = TrimEnd(rangeText)
             /\ Len(statements[j].text) > 0
             /\ statements[j].text = SubSeq(rangeText, 1, Len(statements[j].text))
             /\ \A p \in (Len(statements[j].text) + 1)..Len(rangeText) :
                  IsTrimSpace(rangeText[p])
    /\ \A j \in 1..(Len(statements) - 1) : statements[j].to < statements[j + 1].from
    /\ GetSqlStatements(docText) = statements

\* C21 witness: of the document with no-break spaces two statements are
\* listed; the range of the first ends after the no-break space that
\* follows SELECT 1, and its text ends before it
C21_Witness ==
  /\ sqlPc = "listed"
  /\ docText = DocNoBreakSpaces
  /\ Len(statements) = 2
  /\ statements[1].from = 2
  /\ statements[1].to = 11
  /\ statements[1].text = <<"S", "E", "L", "E", "C", "T", " ", "1">>
  /\ statements[2].text = <<NoBreakSpace, "a">>

\* the scanner states a pass over the text can start in
ScannerStates(text) ==
  {StateNormal, StateSingleQuote, StateDoubleQuote, StateLineComment}
    \cup {StateBlockComment(depth) : depth \in 1..Len(text)}
    \cup {StateDollarQuote(ReadDollarQuoteDelimiter(text, offset)) :
            offset \in {o \in 0..(Len(text) - 1) : ReadDollarQuoteDelimiter(text, o) # <<>>}}

\* the constructs the scanner can be inside when the text ends
OpenConstructs == {"singleQuote", "doubleQuote", "blockComment", "dollarQuote"}

\* offset of the opener of the construct the text ends in: the last offset
\* read in the normal state
OpenerOffset(run) ==
  CHOOSE p \in {v.offset : v \in {w \in run.visited : w.kind = "normal"}} :
    \A w \in run.visited : w.kind = "normal" => w.offset <= p

\* C16: on every text the scanner's loop ends (each pass, from any state at
\* any offset, moves on to a later offset), the last segment ends at
\* text.length and the segment ends increase; when the text ends inside a
\* quote, a block comment or a dollar-quoted block, no segment ends after
\* the opener of that construct except the last one at text.length.
C16_ScanEndsAndOpenConstructRunsToEnd ==
  sqlPc = "scanned" =>
    LET run == ScanRun(docText)
    IN  /\ \A i \in 0..(Len(docText) - 1) :
             \A state \in ScannerStates(docText) :
               /\ ScanPass(docText, i, state, NoOffset).i > i
               /\ ScanPass(docText, i, state, 0).i > i
        /\ Len(segments) > 0
        /\ segments[Len(segments)].rawEnd = Len(docText)
        /\ \A k \in 1..(Len(segments) - 1) : segments[k].rawEnd < segments[k + 1].rawEnd
        /\ \A v \in visited : v.offset >= 0 /\ v.offset < Len(docText)
        /\ run.state.kind \in OpenConstructs =>
             /\ CharAt(docText, OpenerOffset(run)) \in {"'", "\"", "/", "$"}
             /\ \A k \in 1..(Len(segments) - 1) : segments[k].rawEnd < OpenerOffset(run)
             /\ \A w \in visited : w.offset > OpenerOffset(run) => w.kind = run.state.kind

\* C16 witness: in `$a$;` the dollar-quoted block opened at offset 0 is
\* never closed: the scan ends inside it with one segment, ending at 4
C16_Witness ==
  /\ sqlPc = "scanned"
  /\ docText = <<"$", "a", "$", ";">>
  /\ ScanRun(docText).state = StateDollarQuote(<<"$", "a", "$">>)
  /\ segments = <<Segment(4, 0)>>

\* the text from offset a up to b is one block comment with its nested
\* comments: "/*", then characters and whole comments, then its own "*/"
RECURSIVE IsComment(_, _, _)
RECURSIVE IsCommentBody(_, _, _)
IsComment(text, a, b) ==
  /\ b - a >= 4
  /\ b <= Len(text)
  /\ CharAt(text, a) = "/" /\ CharAt(text, a + 1) = "*"
  /\ CharAt(text, b - 2) = "*" /\ CharAt(text, b - 1) = "/"
  /\ IsCommentBody(text, a + 2, b - 2)

IsCommentBody(text, a, b) ==
  \/ a = b
  \/ /\ a < b
     /\ CharAt(text, a) = "/" /\ CharAt(text, a + 1) = "*"
     /\ \E m \in (a + 4)..b : IsComment(text, a, m) /\ IsCommentBody(text, m, b)
  \/ /\ a < b
     /\ ~(CharAt(text, a) = "/" /\ CharAt(text, a + 1) = "*")
     /\ ~(CharAt(text, a) = "*" /\ CharAt(text, a + 1) = "/")
     /\ IsCommentBody(text, a + 1, b)

\* the offsets at which the comment opened at offset a is complete
CommentEnds(text, a) == {b \in (a + 4)..Len(text) : IsComment(text, a, b)}

\* the offsets at which the scanner, in its normal state, meets "/*"
CommentOpeners(text, seen) ==
  {a \in 0..(Len(text) - 2) :
     /\ [offset |-> a, kind |-> "normal"] \in seen
     /\ CharAt(text, a) = "/" /\ CharAt(text, a + 1) = "*"}

\* C23: a block comment the scanner enters ends where every "/*" opened in
\* it has met its own "*/": up to there no offset is read in the normal
\* state and no ";" ends a segment, the offset after it is read in the
\* normal state, and the first ";" after it that only plain characters
\* precede ends a segment; a comment never completed runs to the end of the
\* text.
C23_BlockCommentsNest ==
  sqlPc = "scanned" =>
    \A a \in CommentOpeners(docText, visited) :
      LET ends == CommentEnds(docText, a)
          inside(b) == (a + 1)..(b - 1)
      IN  IF ends = {}
          THEN /\ \A p \in inside(Len(docText) + 1) :
                    [offset |-> p, kind |-> "normal"] \notin visited
               /\ \A k \in 1..Len(segments) : segments[k].rawEnd <= a
                                               \/ segments[k].rawEnd = Len(docText)
          ELSE /\ Cardinality(ends) = 1
               /\ \A b \in ends :
                    /\ \A p \in inside(b) : [offset |-> p, kind |-> "normal"] \notin visited
                    /\ \A k \in 1..Len(segments) : segments[k].rawEnd \notin inside(b)
                    /\ b < Len(docText) => [offset |-> b, kind |-> "normal"] \in visited
                    /\ \A q \in b..(Len(docText) - 1) :
                         (/\ CharAt(docText, q) = ";"
                          /\ \A r \in b..(q - 1) :
                               CharAt(docText, r) \notin {";", "'", "\"", "$", "-", "/"})
                           => \E k \in 1..Len(segments) : segments[k].rawEnd = q

\* C23 witness: in "/*", "/*", "*/", ";", "*/", ";" the ";" after the inner
\* "*/" ends no segment and the ";" after the outer one ends the first
C23_Witness ==
  /\ sqlPc = "scanned"
  /\ docText = <<"/", "*", "/", "*", "*", "/", ";", "*", "/", ";">>
  /\ CommentEnds(docText, 0) = {9}
  /\ Len(segments) = 2
  /\ segments[1].rawEnd = 9

(***************************************************************************)
(* Properties of saveChanges (SpecSave)                                    *)
(***************************************************************************)
\* the queries of `issued` that carry a change, in order
RECURSIVE DataQueries(_)
DataQueries(queries) ==
  IF queries = <<>> THEN <<>>
  ELSE IF Head(queries).statement.kind = "CONTROL" THEN DataQueries(Tail(queries))
  ELSE <<Head(queries)>> \o DataQueries(Tail(queries))

SomeQueryFailed == \E k \in 1..Len(issued) : issued[k].verdict = "error"

\* the changes the for loop has dealt with: those before saveIndex, and the
\* one at saveIndex when its statement is the one that failed
ChangesDealtWith ==
  IF saveCaught.at = "statement"
  THEN SubSeq(saveRequest.changes, 1, saveCaught.index)
  ELSE SubSeq(saveRequest.changes, 1, saveIndex - 1)

\* C2: once a query of the batch has failed, saveChanges never returns
\* counts and the committed table stays exactly as it was before the call,
\* whatever statements ran successfully before the failure; a call that
\* threw leaves the table unchanged.
C2_FailedBatchLeavesTableUnchanged ==
  /\ SomeQueryFailed => dbTable = InitialTable /\ saveOutcome.kind # "returned"
  /\ saveOutcome.kind = "thrown" => dbTable = InitialTable
  /\ savePc = "settled" /\ SomeQueryFailed => saveOutcome.kind = "thrown"

\* C2 witness: a batch of 3 changes whose 1st changed a row inside the
\* transaction and whose 2nd failed has been rolled back and has thrown
C2_Witness ==
  /\ savePc = "settled"
  /\ Len(saveRequest.changes) = 3
  /\ Len(issued) = 4
  /\ issued[2].verdict = "ok" /\ issued[2].rowCount = 1
  /\ issued[3].verdict = "error"
  /\ saveCaught = ErrorAt("statement", 2)
  /\ saveOutcome.kind = "thrown"
  /\ dbTable = InitialTable

\* C6 as stated: whenever a query inside the transaction fails, ROLLBACK is
\* issued on the same client and saveChanges rejects with exactly the error
\* of the failing query.
C6_RejectsWithTheStatementError ==
  savePc = "settled" /\ saveCaught # NoError =>
    /\ issued[Len(issued)].statement.sql = SqlRollback
    /\ saveOutcome = Thrown(saveCaught)

\* the client.release() count of C7, by exit path
ExitPath ==
  IF saveOutcome.kind = "returned" THEN "commit"
  ELSE IF saveOutcome.error.at = "ROLLBACK" THEN "rollback failed"
  ELSE saveOutcome.error.at

\* C7: the client saveChanges acquired is released exactly once by the time
\* the call settles, on every exit path (commit, BEGIN failure, statement
\* failure, COMMIT failure, ROLLBACK failure), and never before.
C7_ClientReleasedExactlyOnce ==
  /\ acquired <= 1
  /\ savePc = "settled" => released = acquired
  /\ savePc # "settled" => released = 0

\* C7 witness: a call whose statement and whose ROLLBACK both failed has
\* settled with its client released once
C7_Witness ==
  /\ savePc = "settled"
  /\ saveCaught.at = "statement"
  /\ ExitPath = "rollback failed"
  /\ acquired = 1
  /\ released = 1

\* the changes C8 says have no statement
HasResolvableColumn(columns, cells) ==
  \E k \in 1..Len(cells) :
    cells[k].columnIndex >= 0 /\ cells[k].columnIndex < Len(columns)

Untranslatable(columns, change) ==
  \/ change.kind = "update" /\ ~HasResolvableColumn(columns, change.updates)
  \/ change.kind = "insert" /\ ~HasResolvableColumn(columns, change.values)
  \/ change.kind = "delete" /\ change.rowLocator = <<>>

RECURSIVE Translatable(_, _)
Translatable(columns, changes) ==
  IF changes = <<>> THEN <<>>
  ELSE IF Untranslatable(columns, Head(changes)) THEN Translatable(columns, Tail(changes))
  ELSE <<Head(changes)>> \o Translatable(columns, Tail(changes))

\* engine-reported row counts of the successful queries of one command
RECURSIVE RowsReported(_, _)
RowsReported(queries, kind) ==
  IF queries = <<>> THEN 0
  ELSE (IF Head(queries).statement.kind = kind /\ Head(queries).verdict = "ok"
        THEN Head(queries).rowCount ELSE 0)
       + RowsReported(Tail(queries), kind)

\* C8: a change with no statement (an update or insert with no resolvable
\* column index, a delete with an empty row locator) sends no query and adds
\* to no counter, and the batch goes on: the data queries sent are, in
\* order, one per translatable change dealt with so far, the counters are
\* the row counts of the successful queries, and a call that returned has
\* sent one query per translatable change and committed.
C8_UntranslatableChangesSkipped ==
  LET sent == DataQueries(issued)
      due == Translatable(saveRequest.columns, ChangesDealtWith)
  IN  /\ Len(sent) = Len(due)
      /\ \A k \in 1..Len(sent) :
           /\ sent[k].statement.kind =
                (CASE due[k].kind = "update" -> "UPDATE"
                   [] due[k].kind = "insert" -> "INSERT"
                   [] OTHER -> "DELETE")
           /\ due[k].kind # "insert" =>
                sent[k].statement.values[Len(sent[k].statement.values)] = Some(due[k].rowLocator)
      /\ saveCounts = [updatedRows |-> RowsReported(issued, "UPDATE"),
                       insertedRows |-> RowsReported(issued, "INSERT"),
                       deletedRows |-> RowsReported(issued, "DELETE")]
      /\ saveOutcome.kind = "returned" /\ Len(saveRequest.columns) > 0 /\ Len(issued) > 0 =>
           /\ Len(sent) = Len(Translatable(saveRequest.columns, saveRequest.changes))
           /\ issued[Len(issued)].statement.sql = SqlCommit
           /\ issued[Len(issued)].verdict = "ok"
           /\ saveOutcome.counts = saveCounts

\* C8 witness: a batch of an untranslatable update, an untranslatable delete
\* and a delete of row (0,1) returned with only that delete executed
C8_Witness ==
  /\ savePc = "settled"
  /\ saveOutcome = Returned([updatedRows |-> 0, insertedRows |-> 0, deletedRows |-> 1])
  /\ Len(saveRequest.changes) = 3
  /\ Untranslatable(saveRequest.columns, saveRequest.changes[1])
  /\ saveRequest.changes[1].kind = "update"
  /\ saveRequest.changes[2] = DeleteChange(<<>>)
  /\ saveRequest.changes[3] = DeleteChange(Tid(1))
  /\ Len(DataQueries(issued)) = 1
  /\ dbTable[1] = NoRow

\* C9 as stated: an update change whose rowLocator is empty is skipped: no
\* UPDATE is sent for it and the rest of the batch proceeds.
C9_EmptyLocatorUpdateSkipped ==
  \A k \in 1..Len(issued) :
    issued[k].statement.kind = "UPDATE" =>
      issued[k].statement.values[Len(issued[k].statement.values)] # Some(<<>>)

\* the data queries that succeeded and whose locator matched no row
Missed(queries) ==
  {k \in 1..Len(queries) :
     /\ queries[k].statement.kind \in {"UPDATE", "DELETE"}
     /\ queries[k].verdict = "ok"
     /\ queries[k].rowCount = 0}

\* the table after the successful data queries that reported a row, in order
RECURSIVE Replayed(_, _)
Replayed(table, queries) ==
  IF queries = <<>> THEN table
  ELSE IF Head(queries).statement.kind = "CONTROL" \/ Head(queries).rowCount < 1
  THEN Replayed(table, Tail(queries))
  ELSE Replayed(Applied(table, Head(queries).statement).table, Tail(queries))

\* C12: the counts saveChanges returns are, per kind, the sums of the row
\* counts the engine reported for the statements of that kind; an update or
\* delete whose locator matches no row reports 0, is not an error (a batch
\* all of whose queries succeeded returns), and the table committed is the
\* one the statements that did match produce.
C12_CountsAreEngineReportedSums ==
  /\ saveOutcome.kind = "returned" =>
       /\ saveOutcome.counts.updatedRows = RowsReported(issued, "UPDATE")
       /\ saveOutcome.counts.insertedRows = RowsReported(issued, "INSERT")
       /\ saveOutcome.counts.deletedRows = RowsReported(issued, "DELETE")
       /\ dbTable = Replayed(InitialTable, issued)
  /\ \A k \in 1..Len(issued) :
       /\ issued[k].statement.kind \in {"UPDATE", "DELETE"} /\ issued[k].verdict = "ok" =>
            issued[k].rowCount \in {0, 1}
       /\ issued[k].statement.kind \in {"UPDATE", "DELETE"}
            /\ SlotOfTid(issued[k].statement.values[Len(issued[k].statement.values)].text)
                 \notin Slots
            /\ issued[k].verdict = "ok" => issued[k].rowCount = 0
  /\ savePc = "settled" /\ ~SomeQueryFailed /\ acquired = 1 => saveOutcome.kind = "returned"

\* C12 witness: an update and a delete of the absent row (0,9) followed by a
\* delete of row (0,1) returned 0 updated, 0 inserted, 1 deleted, and the
\* delete of (0,1) is committed
C12_Witness ==
  /\ savePc = "settled"
  /\ saveRequest.changes = <<UpdateChange(Tid(9), <<Cell(1, ValueBob, FALSE)>>),
                             DeleteChange(Tid(9)),
                             DeleteChange(Tid(1))>>
  /\ Missed(issued) = {2, 3}
  /\ saveOutcome = Returned([updatedRows |-> 0, insertedRows |-> 0, deletedRows |-> 1])
  /\ dbTable[1] = NoRow

\* the column positions an UPDATE statement assigns more than once
AssignedTwice(statement) ==
  {j \in 1..Len(statement.columns) :
     \E k \in 1..Len(statement.columns) : j < k /\ statement.columns[j] = statement.columns[k]}

\* C14 as stated: an update change that lists one column index more than
\* once is applied, and the column ends up with the value of the last
\* occurrence: the UPDATE sent for it is one the engine can execute, and
\* executing it on the table stores the last value bound to the column.
C14_DuplicateUpdateLastWins ==
  \A q \in 1..Len(issued) :
    LET statement == issued[q].statement
    IN  statement.kind = "UPDATE" /\ AssignedTwice(statement) # {} =>
          /\ "ok" \in Verdicts(statement)
          /\ issued[q].verdict = "ok" =>
               \A j \in AssignedTwice(statement) :
                 \E n \in Slots :
                   txTable[n] # NoRow
                     /\ txTable[n][ColumnPosition(statement.columns[j])]
                          = statement.values[
                              CHOOSE k \in 1..Len(statement.columns) :
                                /\ statement.columns[k] = statement.columns[j]
                                /\ \A m \in 1..Len(statement.columns) :
                                     statement.columns[m] = statement.columns[j] => m <= k]

\* C22: saveChanges of a request with no changes or no columns returns zero
\* counts having acquired no client and issued no statement, BEGIN included,
\* so the table a reload reads is the table as it was.
C22_NothingToSaveTouchesNothing ==
  (savePc # "off" /\ (saveRequest.changes = <<>> \/ saveRequest.columns = <<>>)) =>
    /\ savePc \in {"called", "settled"}
    /\ savePc = "settled" => saveOutcome = Returned(ZeroCounts)
    /\ acquired = 0
    /\ released = 0
    /\ issued = <<>>
    /\ dbTable = InitialTable
    /\ txTable = InitialTable
    /\ txState = "idle"

\* C22 witness: a request of three changes and no columns has returned
C22_Witness ==
  /\ savePc = "settled"
  /\ saveRequest.columns = <<>>
  /\ Len(saveRequest.changes) = MaxChanges
  /\ saveOutcome = Returned(ZeroCounts)
  /\ acquired = 0
  /\ issued = <<>>

(***************************************************************************)
(* Properties of runCancelable (SpecRc)                                    *)
(***************************************************************************)
\* cancel() was called before the event that ended the query
CancelCalledBeforeEnd ==
  \E j, k \in 1..Len(rcLog) :
    /\ j < k
    /\ rcLog[j] = "cancel"
    /\ rcLog[k] \in {"connectFailed", "resolved", "rejected"}

\* C10: a query that ended in an error has cancelled = TRUE exactly when
\* cancel() was called before the error or the error's code is 57014, and
\* then its message is "Query cancelled.", otherwise the error's own
\* message; a query that completed normally has its rows (cut to the row
\* limit), cancelled = FALSE and no error, whether or not cancel() was called
\* while it was in flight.
C10_CancelledOutcome ==
  rcPc = "settled" =>
    IF rcEngine.kind = "rejected"
    THEN /\ rcResult.error.present
         /\ rcResult.cancelled <=>
              (CancelCalledBeforeEnd \/ (rcEngine.error.isObject /\ rcEngine.error.code = "57014"))
         /\ rcResult.error.message =
              (IF rcResult.cancelled THEN "Query cancelled."
               ELSE IF rcEngine.error.isObject /\ rcEngine.error.message # Undefined
               THEN rcEngine.error.message
               ELSE "Unknown error")
    ELSE /\ rcEngine.kind = "resolved"
         /\ ~rcResult.cancelled
         /\ ~rcResult.error.present
         /\ \E n \in 0..Len(rcEngine.result.rows) :
              rcResult.rows = SubSeq(rcEngine.result.rows, 1, n)

\* C10 witness: cancel() was called while the query was in flight and the
\* query then failed with a syntax error, which the result reports as a
\* cancellation
C10_Witness ==
  /\ rcPc = "settled"
  /\ rcLog = <<"connected", "cancel", "rejected">>
  /\ rcEngine = Rejected(ErrSyntax)
  /\ rcResult.cancelled
  /\ rcResult.error.message = "Query cancelled."
  /\ rcResult.error.code = "42601"

\* the query failed: clientPromise or client.query(sql) rejected
RcFailure == rcPc = "settled" /\ rcEngine.kind = "rejected"

\* what C17 says of every call apart from the error's message: the promise
\* resolves, a failure gives no columns, no rows, a null rowCount and an
\* error with the detail, code and position of what was thrown, and an
\* acquired client is released once, when the call settles
ResolvesAndReleases ==
  /\ rcPc = "settled" <=> rcResult.settled
  /\ RcFailure =>
       /\ rcResult.columns = <<>>
       /\ rcResult.rows = <<>>
       /\ rcResult.rowCount = NoCount
       /\ ~rcResult.truncated
       /\ rcResult.error.present
       /\ rcResult.error.detail = rcEngine.error.detail
       /\ rcResult.error.code = rcEngine.error.code
       /\ rcResult.error.position = rcEngine.error.position
  /\ rcReleased = (IF rcPc = "settled" /\ rcClient.state = "resolved" THEN 1 ELSE 0)

\* C17 as stated: the promise never rejects, a failure resolves to empty
\* columns and rows, rowCount null and an error whose message, detail, code
\* and position are those of the underlying error, and the acquired client
\* is released exactly once.
C17_ErrorCarriesUnderlyingMessage ==
  /\ ResolvesAndReleases
  /\ RcFailure => rcResult.error.message = rcEngine.error.message

\* C17 amended: the same, with the message being "Query cancelled." when
\* the result is cancelled, else the underlying error's message when it is
\* an object that has one, else "Unknown error".
C17_ErrorCarriesNormalizedMessage ==
  /\ ResolvesAndReleases
  /\ RcFailure =>
       rcResult.error.message =
         (IF rcResult.cancelled THEN "Query cancelled."
          ELSE IF rcEngine.error.isObject /\ rcEngine.error.message # Undefined
          THEN rcEngine.error.message
          ELSE "Unknown error")

\* C17 witness: the query failed on a unique violation with no cancel():
\* the result carries the error's four fields and the client was released
C17_Witness ==
  /\ RcFailure
  /\ rcEngine.error = ErrUnique
  /\ ~rcResult.cancelled
  /\ rcResult.error = ErrorInfo(NormalizeError(ErrUnique), "duplicate key value")
  /\ rcResult.error.detail = "Key (id)=(1) already exists."
  /\ rcResult.error.code = "23505"
  /\ rcClient.state = "resolved"
  /\ rcReleased = 1

\* C25 as stated: every pg_cancel_backend request of cancel() goes out while
\* the query of its runCancelable call is in flight on the backend it names;
\* none goes out once the promise has settled and the client is released.
C25_CancelOnlyWhileInFlight ==
  \A k \in 1..Len(rcRequests) : rcRequests[k].inFlight

(***************************************************************************)
(* Properties of OpenTableService (SpecOts)                                *)
(***************************************************************************)
\* C3 as stated: under every interleaving of the service's handlers with the
\* webview's messages, each update or delete handed to the provider carries
\* the locator of the row the webview displayed at that rowIndex when the
\* user made the change, never the locator of another row.
C3_ExecutedWithDisplayedRowLocator ==
  \A k \in 1..Len(providerSaves) :
    providerSaves[k].kind # "insert" => providerSaves[k].rowLocator = providerSaves[k].shown

\* C28 as stated: once every reload has settled, the state of a page that
\* loaded is that of the page and sort requested last: the rows shown, the
\* stored row tokens and hasNextPage are those of the loadPage response for
\* currentPage, and pageNumber is that response's pageIndex + 1.
C28_ShownStateIsLatestRequest ==
  (loadsInFlight = <<>> /\ activeState.defined /\ ~activeState.error) =>
    LET page == LoadPage(PageRequest(currentPage, currentSortColumn, currentSortDirection))
    IN  /\ activeState.rows = page.rows
        /\ activeRowTokens = page.rows
        /\ activeState.hasNextPage = page.hasNextPage
        /\ activeState.pageNumber = page.pageIndex + 1

(***************************************************************************)
(* Properties of loadPage (SpecLp)                                         *)
(***************************************************************************)
\* the page query has resolved and loadPage has returned
PageLoaded == lpPc = "settled" /\ lpResult.kind = "returned"

\* C11 as stated: with N the pageSize of the request, the page query asks
\* for N + 1 rows at offset pageIndex * N, at most N rows are returned and
\* hasNextPage is true exactly when the query returned N + 1 rows.
C11_RequestsPageSizePlusOne ==
  LET N == lpRequest.pageSize
  IN  /\ lpIssued # <<>> =>
           lpIssued[1] = PageQuery(N + 1, lpRequest.pageIndex * N)
      /\ PageLoaded =>
           /\ Len(lpResult.rows) <= N
           /\ lpResult.hasNextPage <=> Len(lpFetched.rows) = N + 1

\* C11 amended: the same with N the normalised page size, which is the
\* request's pageSize when that is positive and DEFAULT_PAGE_SIZE otherwise;
\* the rows returned are the first N (or all) of the rows fetched.
C11_RequestsNormalizedPageSizePlusOne ==
  LET N == IF lpRequest.pageSize > 0 THEN lpRequest.pageSize ELSE 100
  IN  /\ lpIssued # <<>> =>
           lpIssued[1] = PageQuery(N + 1, lpRequest.pageIndex * N)
      /\ PageLoaded =>
           /\ Len(lpFetched.rows) <= N + 1
           /\ Len(lpResult.rows) <= N
           /\ lpResult.pageSize = N
           /\ lpResult.hasNextPage <=> Len(lpFetched.rows) = N + 1
           /\ \A k \in 1..Len(lpResult.rows) :
                lpResult.rows[k].rowLocator = lpFetched.rows[k].token
           /\ Len(lpResult.rows) = (IF Len(lpFetched.rows) > N THEN N ELSE Len(lpFetched.rows))

\* C11 witness: a page of 2 was asked for where 3 rows were left: 3 rows were
\* fetched, 2 returned, and there is a next page
C11_Witness ==
  /\ PageLoaded
  /\ lpRequest.pageSize = 2
  /\ lpIssued[1] = PageQuery(3, 0)
  /\ Len(lpFetched.rows) = 3
  /\ Len(lpResult.rows) = 2
  /\ lpResult.hasNextPage

\* every column of the returned page, by what each metadata query did
TypesFailed == lpTypes.outcome = "rejected"
EnumsFailed == lpEnums.outcome = "rejected"

\* the data type a column has in the rows of the type query, "" without one
ListedType(columnName) ==
  LET listed == {k \in 1..Len(lpTypes.rows) : lpTypes.rows[k].column_name = columnName}
  IN  IF listed = {} THEN ""
      ELSE lpTypes.rows[CHOOSE k \in listed : \A j \in listed : j <= k].column_type

\* the number of labels a column has in the rows of the enum query
ListedLabels(columnName) ==
  Cardinality({k \in 1..Len(lpEnums.rows) : lpEnums.rows[k].column_name = columnName})

\* C18: when the type query or the enum query fails, loadPage still returns
\* the page's rows and columns; every column has dataType "" when the type
\* query failed and enumValues <<>> when the enum query failed; and what one
\* query produced is what its own rows say, whatever happened to the other.
C18_MetadataFailureDegrades ==
  /\ lpPc = "metadata" => lpResult.kind = "pending"
  /\ lpPc = "settled" /\ lpFetched # NoPageResult => lpResult.kind = "returned"
  /\ PageLoaded =>
       /\ [k \in 1..Len(lpResult.columns) |-> lpResult.columns[k].name]
            = ColumnsOf(lpFetched.fields)
       /\ Len(lpResult.rows) = (IF Len(lpFetched.rows) > lpResult.pageSize
                                THEN lpResult.pageSize ELSE Len(lpFetched.rows))
       /\ \A k \in 1..Len(lpResult.columns) :
            LET column == lpResult.columns[k]
            IN  /\ TypesFailed => column.dataType = ""
                /\ EnumsFailed => column.enumValues = <<>>
                /\ ~TypesFailed => column.dataType = ListedType(column.name)
                /\ ~EnumsFailed => Len(column.enumValues) = ListedLabels(column.name)

\* C18 witness: the type query failed and the enum query listed two labels
\* of "status": the page is returned with its rows, no types and the labels
C18_Witness ==
  /\ PageLoaded
  /\ TypesFailed
  /\ ~EnumsFailed
  /\ Len(lpResult.rows) > 0
  /\ Len(lpResult.columns) = 2
  /\ lpResult.columns[2].dataType = ""
  /\ lpResult.columns[2].enumValues = <<"open", "closed">>

\* the queries loadPage has issued, as a set
IssuedQueries == {lpIssued[k] : k \in 1..Len(lpIssued)}

\* a metadata loader has had the response of its query
Answered(loader) == loader.state = "done" /\ loader.outcome # "none"

\* C24: the column-type query and the enum-value query are issued only once
\* the page query has completed, always together, and before the response of
\* either has arrived: while one is awaited the other is in flight or
\* answered, in either order.
C24_MetadataQueriesOverlap ==
  /\ \A k \in 1..Len(lpIssued) :
       lpIssued[k] \in {TypesQuery, EnumsQuery} =>
         /\ k > 1
         /\ lpFetched # NoPageResult
         /\ lpPc \in {"metadata", "settled"}
  /\ TypesQuery \in IssuedQueries <=> EnumsQuery \in IssuedQueries
  /\ Len(lpIssued) > 1 => lpIssued = <<lpIssued[1], TypesQuery, EnumsQuery>>
  /\ (Answered(lpTypes) \/ lpTypes.state = "waiting") =>
       /\ {TypesQuery, EnumsQuery} \subseteq IssuedQueries
       /\ lpEnums.state = "waiting" \/ Answered(lpEnums)
  /\ (Answered(lpEnums) \/ lpEnums.state = "waiting") =>
       /\ {TypesQuery, EnumsQuery} \subseteq IssuedQueries
       /\ lpTypes.state = "waiting" \/ Answered(lpTypes)

\* C24 witness: the enum-value query has been answered while the column-type
\* query, issued before it, is still in flight
C24_Witness ==
  /\ lpPc = "metadata"
  /\ Len(lpIssued) = 3
  /\ lpIssued[2] = TypesQuery
  /\ lpIssued[3] = EnumsQuery
  /\ lpTypes.state = "waiting"
  /\ Answered(lpEnums)

(***************************************************************************)
(* Properties of the statement builders (SpecBld)                          *)
(***************************************************************************)
\* a cell's column index resolves to a column name
Resolves(columns, cell) ==
  /\ cell.columnIndex >= 0
  /\ cell.columnIndex < Len(columns)
  /\ columns[cell.columnIndex + 1] # <<>>

\* positions of the cells an insert keeps: resolvable, and the first of
\* their column index
FirstPositions(columns, cells) ==
  {p \in 1..Len(cells) :
     /\ Resolves(columns, cells[p])
     /\ \A q \in 1..(p - 1) : cells[q].columnIndex # cells[p].columnIndex}

\* the k-th smallest member of a set of positions
KthPosition(positions, k) ==
  CHOOSE p \in positions : Cardinality({q \in positions : q < p}) = k - 1

\* "$1, $2, ..., $k"
RECURSIVE PlaceholderList(_)
PlaceholderList(k) ==
  IF k = 0 THEN <<>>
  ELSE IF k = 1 THEN <<"$", "1">>
  ELSE PlaceholderList(k - 1) \o <<",", " ", "$">> \o Decimal(k)

InsertBuilt == bldPc = "built" /\ bldChange.kind = "insert"

\* C13: buildInsertStatement keeps, in order, the first cell of every
\* resolvable column index: each index is in the column list at most once,
\* bound to the value of its first cell (NULL when that cell has isNull),
\* later cells of the index and cells with unresolvable indices are dropped,
\* there is no statement when nothing is kept, and the text ends with the
\* placeholders $1..$k for the k bound values.
C13_InsertKeepsFirstPerColumnIndex ==
  InsertBuilt =>
    LET cells == bldChange.values
        firsts == FirstPositions(bldColumns, cells)
        k == Cardinality(firsts)
    IN  /\ bldStatement.defined <=> k > 0
        /\ bldStatement.defined =>
             /\ Len(bldStatement.values) = k
             /\ Len(bldStatement.columns) = k
             /\ \A j \in 1..k :
                  LET cell == cells[KthPosition(firsts, j)]
                  IN  /\ bldStatement.columns[j] = bldColumns[cell.columnIndex + 1]
                      /\ bldStatement.values[j] =
                           (IF cell.isNull THEN Null ELSE Some(cell.value))
             /\ LET tail == PlaceholderList(k) \o <<")", ";">>
                IN  /\ Len(bldStatement.sql) > Len(tail)
                    /\ SubSeq(bldStatement.sql,
                              Len(bldStatement.sql) - Len(tail) + 1,
                              Len(bldStatement.sql)) = tail
                    /\ bldStatement.sql[Len(bldStatement.sql) - Len(tail)] = "("

\* C13 witness: an insert with cells for index 1 (Ada), index 1 again (Bob)
\* and index 0 (NULL) is built with the columns display"name, id and the
\* values Ada, NULL
C13_Witness ==
  /\ InsertBuilt
  /\ bldColumns = TableColumns
  /\ bldChange.values = <<Cell(1, ValueAda, FALSE), Cell(1, ValueBob, FALSE),
                          Cell(0, ValueAda, TRUE)>>
  /\ bldStatement.columns = <<ColumnDisplayName, ColumnId>>
  /\ bldStatement.values = <<Some(ValueAda), Null>>

\* How PostgreSQL reads a quoted identifier that starts at offset `from`:
\* up to the first double quote that is not doubled, a doubled one standing
\* for one double quote.  `next` is the offset after the closing quote.
RECURSIVE ReadQuotedFrom(_, _, _)
ReadQuotedFrom(text, i, read) ==
  IF i >= Len(text) THEN [ok |-> FALSE, identifier |-> read, next |-> i]
  ELSE IF CharAt(text, i) = "\""
  THEN IF CharAt(text, i + 1) = "\""
       THEN ReadQuotedFrom(text, i + 2, Append(read, "\""))
       ELSE [ok |-> TRUE, identifier |-> read, next |-> i + 1]
  ELSE ReadQuotedFrom(text, i + 1, Append(read, CharAt(text, i)))

ReadQuotedIdentifier(text, from) ==
  IF CharAt(text, from) # "\"" THEN [ok |-> FALSE, identifier |-> <<>>, next |-> from]
  ELSE ReadQuotedFrom(text, from + 1, <<>>)

\* the parts a statement text is made of: fixed text and quoted identifiers
Fixed(text) == [quoted |-> FALSE, text |-> text]
Quoted(identifier) == [quoted |-> TRUE, text |-> identifier]

\* the text from offset `pos` on reads as the parts, in order, and no more
RECURSIVE ReadsAs(_, _, _)
ReadsAs(text, pos, parts) ==
  IF parts = <<>> THEN pos = Len(text)
  ELSE IF Head(parts).quoted
  THEN LET got == ReadQuotedIdentifier(text, pos)
       IN  got.ok /\ got.identifier = Head(parts).text /\ ReadsAs(text, got.next, Tail(parts))
  ELSE /\ StartsWith(text, Head(parts).text, pos)
       /\ ReadsAs(text, pos + Len(Head(parts).text), Tail(parts))

\* the column identifiers of a statement, each followed by `after(k)` and
\* separated by ", "
RECURSIVE ColumnParts(_, _, _)
ColumnParts(columns, k, withPlaceholder) ==
  IF k > Len(columns) THEN <<>>
  ELSE <<Quoted(columns[k])>>
       \o (IF withPlaceholder THEN <<Fixed(KwEquals \o Decimal(k))>> ELSE <<>>)
       \o (IF k < Len(columns) THEN <<Fixed(KwCommaSpace)>> ELSE <<>>)
       \o ColumnParts(columns, k + 1, withPlaceholder)

\* the parts of the statement the builders made from bldTable, the columns
\* they kept and bldPage
ExpectedParts ==
  LET qualified == <<Quoted(bldTable.schemaName), Fixed(KwDot), Quoted(bldTable.tableName)>>
      kept == bldStatement.columns
  IN  CASE bldStatement.kind = "SELECT" ->
             <<Fixed(KwSelect), Quoted(RowTokenAliasText), Fixed(KwFrom)>> \o qualified
               \o <<Fixed(KwOrderLimit \o Decimal(bldPage.limit) \o KwOffset
                            \o Decimal(bldPage.offset) \o KwEnd)>>
        [] bldStatement.kind = "UPDATE" ->
             <<Fixed(KwUpdate)>> \o qualified \o <<Fixed(KwSet)>>
               \o ColumnParts(kept, 1, TRUE)
               \o <<Fixed(KwWhereCtid \o Decimal(Len(kept) + 1) \o KwTidEnd)>>
        [] bldStatement.kind = "INSERT" ->
             <<Fixed(KwInsertInto)>> \o qualified \o <<Fixed(KwOpenParen)>>
               \o ColumnParts(kept, 1, FALSE)
               \o <<Fixed(KwValues \o PlaceholderList(Len(kept)) \o KwCloseEnd)>>
        [] OTHER ->
             <<Fixed(KwDeleteFrom)>> \o qualified \o <<Fixed(KwDeleteWhere)>>

QuotedUserName == <<"\"", "u", "s", "e", "r", "\"", "\"", "n", "a", "m", "e", "\"">>

\* C20: quoteIdentifier puts the identifier between double quotes with
\* every double quote in it doubled: the quoted text reads back as the
\* identifier and ends where the reading ends, two identifiers never quote
\* to one text, user"name quotes to "user""name", and in every SELECT,
\* UPDATE, INSERT and DELETE statement built the schema, table and column
\* identifiers read back unchanged, each followed by the builder's own text.
C20_QuotedIdentifiersReadBack ==
  bldPc \in {"built", "selected"} =>
    /\ \A identifier \in {bldTable.schemaName, bldTable.tableName}
                          \cup {bldColumns[k] : k \in 1..Len(bldColumns)} :
         LET quoted == QuoteIdentifier(identifier)
         IN  /\ Len(quoted) >= 2
             /\ quoted[1] = "\"" /\ quoted[Len(quoted)] = "\""
             /\ ReadQuotedIdentifier(quoted, 0)
                  = [ok |-> TRUE, identifier |-> identifier, next |-> Len(quoted)]
             /\ \A other \in Identifiers :
                  QuoteIdentifier(other) = quoted => other = identifier
    /\ QuoteIdentifier(IdUserName) = QuotedUserName
    /\ bldStatement.defined => ReadsAs(bldStatement.sql, 0, ExpectedParts)

\* C20 witness: an UPDATE of table user"name.users setting the column
\* display"name has been built with "user""name" as its schema
C20_Witness ==
  /\ bldPc = "built"
  /\ bldStatement.kind = "UPDATE"
  /\ bldTable.schemaName = IdUserName
  /\ bldStatement.columns = <<ColumnDisplayName>>
  /\ StartsWith(bldStatement.sql, KwUpdate \o QuotedUserName \o KwDot, 0)

(***************************************************************************)
(* Properties of ConnectionManager (SpecCm)                                *)
(***************************************************************************)
\* the sessions the manager holds
HeldSessions == {sessions[p] : p \in {q \in ProfileIds : sessions[q] # 0}}

\* C19 as stated: whenever no connect or disconnect call is in progress, at
\* most one session is held and it is the active profile's; every session
\* created that is not the active one has had dispose() called; and when the
\* last call was disconnect(), getActiveProfileId() and getSession() are
\* both undefined.
C19_OneSessionOfTheActiveProfile ==
  cmCall = NoCall =>
    /\ Cardinality(HeldSessions) <= 1
    /\ \A p \in ProfileIds : sessions[p] # 0 => p = activeProfileId
    /\ \A session \in 1..cmCreated : session = GetSession \/ session \in cmDisposed
    /\ cmLast.kind = "disconnect" =>
         GetActiveProfileId = NoProfile /\ GetSession = 0

\* C26 as stated: whenever no call is in progress, an active profile id is
\* set exactly when getSession() gives a session of that profile that has
\* not been disposed, also after a connect() or disconnect() that failed.
C26_ActiveIffLiveSession ==
  cmCall = NoCall =>
    (GetActiveProfileId # NoProfile <=> (GetSession # 0 /\ GetSession \notin cmDisposed))

(***************************************************************************)
(* Properties of overlapping connect() calls (SpecOv)                      *)
(***************************************************************************)
\* the sessions the manager holds
OvHeldSessions == {ovSessions[p] : p \in ProfileIds} \ {0}

\* every connect() call was made and has settled
OvAllSettled == \A c \in 1..Len(ovCalls) : ovCalls[c].at \in {"returned", "thrown"}

\* two calls that returned, neither made after the other had settled, with
\* no dispose() and no createSession that failed
OvOverlapped ==
  /\ OvAllSettled
  /\ Len(ovCalls) >= 2
  /\ ovCalls[1].at = "returned"
  /\ ovCalls[2].at = "returned"

\* C27 as stated: once the overlapping connect() calls have settled the
\* manager holds at most one session, that of the active profile, and
\* dispose() was called on every other session that was created.
C27_OverlapLeavesOneSession ==
  OvAllSettled =>
    /\ Cardinality(OvHeldSessions) <= 1
    /\ \A p \in ProfileIds : ovSessions[p] # 0 => p = ovActiveProfileId
    /\ \A s \in 1..ovCreated : s \in OvHeldSessions \/ s \in ovDisposed

(***************************************************************************)
(* Properties of the data editor webview (SpecEd)                          *)
(***************************************************************************)
\* what collectChanges() would return now
EdChanges == CollectChanges(workingRows, originalRows, edState.columns)

\* Save and Revert are enabled exactly when collectChanges() has a change
EdButtonsMatchChanges ==
  /\ saveDisabled <=> EdChanges = <<>>
  /\ revertDisabled <=> EdChanges = <<>>

\* the webview as it is after Revert
EdReverted ==
  /\ workingRows = ResetWorkingRows(originalRows)
  /\ \A k \in 1..Len(workingRows) :
       /\ workingRows[k].values = originalRows[k].values
       /\ workingRows[k].nulls = originalRows[k].nulls
  /\ Len(workingRows) = Len(originalRows)
  /\ EdChanges = <<>>
  /\ saveDisabled
  /\ revertDisabled

\* C29: after any sequence of edits, add-row, remove, delete, undo and
\* revert actions the Save and Revert buttons are enabled exactly when
\* collectChanges() would return a change, and Revert leaves the working
\* rows equal to the loaded rows, no change to collect and both buttons
\* disabled.
C29_ButtonsEnabledIffChanges ==
  /\ []EdButtonsMatchChanges
  /\ [][EdRevert => EdReverted']_vars

\* C29 witness: a loaded row with an edit was deleted: no control is dirty,
\* the one change is the delete, and Save and Revert are enabled
C29_Witness ==
  /\ edState = EdPageTwoColumns
  /\ workingRows[1].isDeleted
  /\ workingRows[1].values[1] # originalRows[1].values[1]
  /\ dirtyControls = {}
  /\ EdChanges = <<EdChange("delete", 0, <<>>)>>
  /\ ~saveDisabled
  /\ ~revertDisabled

\* activeRowTokens of the loaded page: the locator of each loaded row
EdRowTokens == [k \in 1..Len(originalRows) |-> Tid(k)]

\* the update and delete changes of a list, as their positions
EdRowChanges(changes) == {j \in 1..Len(changes) : changes[j].kind # "insert"}

\* C30: every loaded row stays at the index it was loaded at and the new
\* rows follow them; each update or delete of collectChanges() has the
\* rowIndex of a loaded row, is a delete exactly when that row is marked
\* deleted and an update of exactly its changed cells otherwise; no two of
\* them have the same rowIndex, so no two resolve to the same row locator;
\* the save message posted is that list.
C30_LoadedRowsKeepTheirIndex ==
  LET loaded == Len(originalRows)
      targets == EdRowChanges(EdChanges)
  IN  /\ Len(workingRows) >= loaded
      /\ \A k \in 1..Len(workingRows) :
           IF k <= loaded
           THEN ~workingRows[k].isNew /\ workingRows[k].origin = k - 1
           ELSE workingRows[k].isNew /\ ~workingRows[k].isDeleted
      /\ \A j \in targets :
           LET change == EdChanges[j]
               row == workingRows[change.rowIndex + 1]
           IN  /\ change.rowIndex \in 0..(loaded - 1)
               /\ row.origin = change.rowIndex
               /\ change.kind = "delete" <=> row.isDeleted
               /\ change.kind = "update" =>
                    /\ change.cells # <<>>
                    /\ \A columnIndex \in 0..(Len(edState.columns) - 1) :
                         CellChanged(row, originalRows[change.rowIndex + 1], columnIndex)
                           <=> \E c \in 1..Len(change.cells) :
                                 change.cells[c] =
                                   Cell(columnIndex, row.values[columnIndex + 1],
                                        row.nulls[columnIndex + 1])
               /\ RowTokenAt(EdRowTokens, change.rowIndex) # <<>>
      /\ \A j \in targets : \A k \in targets :
           j # k =>
             /\ EdChanges[j].rowIndex # EdChanges[k].rowIndex
             /\ RowTokenAt(EdRowTokens, EdChanges[j].rowIndex)
                  # RowTokenAt(EdRowTokens, EdChanges[k].rowIndex)
      /\ edPosted.posted => edPosted.changes = EdChanges

\* C30 witness: a save was posted with an update of the first loaded row, a
\* delete of the second and an insert of a new row
C30_Witness ==
  /\ edPosted.posted
  /\ Len(edPosted.changes) = 3
  /\ edPosted.changes[1].kind = "update"
  /\ edPosted.changes[1].rowIndex = 0
  /\ edPosted.changes[2] = EdChange("delete", 1, <<>>)
  /\ edPosted.changes[3].kind = "insert"

=============================================================================
